---------------------------- MODULE Spec2Model ----------------------------
(***************************************************************************)
(* A model of the two concurrent programs of the repository:               *)
(*                                                                         *)
(*   realtime.py  : five processes (Captura, STT, Translate,               *)
(*                  PreprocesOutput, Play) linked by four bounded          *)
(*                  multiprocessing queues and one stop event, started    *)
(*                  and joined by main;                                    *)
(*   voice-llm.py : the conversation loop (with chat_ollama and play_tts   *)
(*                  running inline on the main thread) and the             *)
(*                  interrupt_listener thread, sharing one SharedState.    *)
(*                                                                         *)
(* The two programs never run together, so each has its own                *)
(* specification over the common variables: Spec, ShutdownSpec, CapSpec,   *)
(* FairSpec, BlockSpec, FaultSpec, CrashSpec and StuckSpec for the         *)
(* pipeline, VoiceSpec and BargeSpec for the assistant, and EitherSpec for *)
(* a run of one or the other.                                              *)
(***************************************************************************)
EXTENDS Naturals, Sequences, FiniteSets

VARIABLES
    \* ---- realtime.py ----
    input_lang, output_lang,   \* config["input_lang"], config["output_lang"]
    stop_event,                \* mp.Event
    audio_queue, stt_queue, translated_queue, output_queue,   \* mp.Queue
    pc,                        \* position of each of the five processes
    held,                      \* the local item of each process (wav_bytes / text / audio_bytes)
    captured,                  \* number of utterances the microphone has delivered
    got,                       \* per stage: the items taken from its input queue, in order
    emitted,                   \* per stage: the items put on its output queue, in order
    failed,                    \* per stage: ids of the items whose transform failed
    translator_calls,          \* number of GoogleTranslator(...).translate calls
    main_pc, join_idx,         \* position of main and of its join loop
    main_log,                  \* the "[MAIN] ..." lines main has printed, in order
    \* ---- voice-llm.py ----
    lock,                      \* SharedState.lock: its holder, or "free"
    is_playing, interrupted, interrupt_audio, stop,   \* SharedState
    o_pc,                      \* position of the main thread (conversation_loop,
                               \* chat_ollama and play_tts run on it)
    o_ret,                     \* which call of play_tts is running
    raising,                   \* a KeyboardInterrupt is unwinding play_tts
    wav_bytes, text, messages, \* locals of conversation_loop
    full_response, line,       \* locals of chat_ollama
    music_busy,                \* pygame.mixer.music.get_busy()
    l_pc,                      \* position of the interrupt_listener thread
    playing, l_wav_bytes,      \* locals of interrupt_listener
    heard,                     \* number of utterances the microphone has delivered
    transcribed,               \* utterances passed to transcribe, in order
    l_playback                 \* history: the playback in progress when the
                               \* listener last read is_playing (line 210)

pipe_vars == << input_lang, output_lang, stop_event, audio_queue, stt_queue,
                translated_queue, output_queue, pc, held, captured, got,
                emitted, failed, translator_calls, main_pc, join_idx,
                main_log >>

voice_vars == << lock, is_playing, interrupted, interrupt_audio, stop, o_pc,
                 o_ret, raising, wav_bytes, text, messages, full_response,
                 line, music_busy, l_pc, playing, l_wav_bytes, heard,
                 transcribed, l_playback >>

vars == << pipe_vars, voice_vars >>

-----------------------------------------------------------------------------
(* Bounds of the model *)

\* utterances the microphone delivers in one run of Spec
MaxItems == 2
\* utterances the microphone delivers in one run of ShutdownSpec
MaxShutdownItems == 1
\* utterances the microphone delivers in one run of CapSpec
MaxCapItems == 11
\* utterances the microphone delivers in one run of FairSpec
MaxFairItems == 1
\* utterances the microphone delivers in one run of VoiceSpec
MaxUtterances == 2
\* tokens the language model streams in one response
MaxTokens == 2
\* utterances the microphone delivers in one run of BlockSpec
MaxBlockItems == 11
\* utterances the microphone delivers in one run of CrashSpec
MaxCrashItems == 1
\* utterances the microphone delivers in one run of FaultSpec
MaxFaultItems == 2
\* utterances the microphone delivers in one run of BargeSpec
MaxBargeUtterances == 3
\* utterances the microphone delivers in one run of StuckSpec, those of its
\* initial state included: what the four queues hold when full (20 + 50 + 50
\* + 10) and one more in the hand of each of the four producers
MaxStuckItems == 134

(* Program constants *)

audio_queue_maxsize == 20
stt_queue_maxsize == 50
translated_queue_maxsize == 50
output_queue_maxsize == 10

LANGS == {"es", "en"}

\* The stages use the languages only through input_lang != output_lang, so
\* one input language against every output language covers both cases.
InputLangs == {"es"}

Stages == {"Captura", "STT", "Translate", "PreprocesOutput", "Play"}

\* the order in which main starts and joins the processes
StageOrder == << "Captura", "STT", "Translate", "PreprocesOutput", "Play" >>

NoItem == [id |-> 0, form |-> "none", lang |-> "none"]

Dead == {"done", "crashed", "killed"}

-----------------------------------------------------------------------------
(* The transforms of the stages, as functions of their input *)

\* audio.get_wav_data() of the n-th utterance heard by the microphone
Utterance(n) == [id |-> n, form |-> "wav", lang |-> "speech"]

\* model.transcribe(BytesIO(wav_bytes), language=input_lang) joined and stripped
Transcribe(wav, lang) == [id |-> wav.id, form |-> "text", lang |-> lang]

\* GoogleTranslator(source, target).translate(text)
GoogleTranslate(txt, source, target) ==
    [id |-> txt.id, form |-> "text", lang |-> target]

\* gTTS / Piper synthesis of text: the raw audio before the speed transform
Synthesize(txt) == [id |-> txt.id, form |-> "raw_audio", lang |-> txt.lang]

\* _speed_up_audio(raw_audio): always exports WAV
SpeedUp(raw) == [id |-> raw.id, form |-> "fast_wav", lang |-> raw.lang]

needs_translation == input_lang # output_lang

-----------------------------------------------------------------------------
(* Queue primitives *)

\* mp.Queue.empty()
Empty(q) == q = << >>

\* mp.Queue.put(item) may return only when the queue holds fewer than maxsize items
CanPut(q, maxsize) == Len(q) < maxsize


-----------------------------------------------------------------------------
(* Initial state: the queues and the event as main constructs them, the    *)
(* five processes started and not yet past their set-up code.              *)

PipeInit ==
    /\ input_lang \in InputLangs
    /\ output_lang \in LANGS
    /\ stop_event = FALSE
    /\ audio_queue = << >>
    /\ stt_queue = << >>
    /\ translated_queue = << >>
    /\ output_queue = << >>
    /\ pc = [s \in Stages |-> "init"]
    /\ held = [s \in Stages |-> NoItem]
    /\ captured = 0
    /\ got = [s \in Stages |-> << >>]
    /\ emitted = [s \in Stages |-> << >>]
    /\ failed = [s \in Stages |-> {}]
    /\ translator_calls = 0
    /\ main_pc = "running"
    /\ join_idx = 1
    /\ main_log = << "Pipeline activo" >>

Goto(s, p) == pc' = [pc EXCEPT ![s] = p]

Take(s, item) ==
    /\ held' = [held EXCEPT ![s] = item]
    /\ got' = [got EXCEPT ![s] = Append(@, item)]

\* a transform that raised (or produced nothing): the item is dropped
Drop(s, why) ==
    /\ failed' = [failed EXCEPT ![s] = @ \cup {[id |-> held[s].id, why |-> why]}]
    /\ held' = [held EXCEPT ![s] = NoItem]
    /\ Goto(s, "loop")

Emit(s) ==
    /\ emitted' = [emitted EXCEPT ![s] = Append(@, held[s])]
    /\ held' = [held EXCEPT ![s] = NoItem]
    /\ Goto(s, "loop")

-----------------------------------------------------------------------------
(* ETAPA 1 - capture_process.  limit bounds the utterances the microphone *)
(* delivers; faults says whether devices and collaborators may fail.       *)

\* capture_init whose handler of the fatal error only logs it
capture_init_no_stop(faults) ==
    /\ pc["Captura"] = "init"
    /\ \/ Goto("Captura", "loop")
       \/ faults /\ Goto("Captura", "done")
    /\ UNCHANGED << main_log, input_lang, output_lang, stop_event, audio_queue, stt_queue,
                    translated_queue, output_queue, held, captured, got,
                    emitted, failed, translator_calls, main_pc, join_idx >>
    /\ UNCHANGED voice_vars

\* sr.Microphone(...) and adjust_for_ambient_noise: a failure is fatal and sets the event
capture_init(faults) ==
    /\ pc["Captura"] = "init"
    /\ \/ Goto("Captura", "loop") /\ UNCHANGED stop_event
       \/ faults /\ stop_event' = TRUE /\ Goto("Captura", "done")
    /\ UNCHANGED << main_log, input_lang, output_lang, audio_queue, stt_queue,
                    translated_queue, output_queue, held, captured, got,
                    emitted, failed, translator_calls, main_pc, join_idx >>
    /\ UNCHANGED voice_vars

\* while not stop_event.is_set()
capture_loop ==
    /\ pc["Captura"] = "loop"
    /\ Goto("Captura", IF stop_event THEN "done" ELSE "listen")
    /\ UNCHANGED << main_log, input_lang, output_lang, stop_event, audio_queue, stt_queue,
                    translated_queue, output_queue, held, captured, got,
                    emitted, failed, translator_calls, main_pc, join_idx >>
    /\ UNCHANGED voice_vars

\* recognizer.listen(source, timeout=5, phrase_time_limit=5): an utterance,
\* or WaitTimeoutError / another exception, after which the loop continues
capture_listen(limit) ==
    /\ pc["Captura"] = "listen"
    /\ \/ /\ captured < limit
          /\ captured' = captured + 1
          /\ held' = [held EXCEPT !["Captura"] = Utterance(captured + 1)]
          /\ Goto("Captura", "put")
       \/ /\ Goto("Captura", "loop")
          /\ UNCHANGED << captured, held >>
    /\ UNCHANGED << main_log, input_lang, output_lang, stop_event, audio_queue, stt_queue,
                    translated_queue, output_queue, got,
                    emitted, failed, translator_calls, main_pc, join_idx >>
    /\ UNCHANGED voice_vars

\* audio_queue.put(wav_bytes): blocks while the queue is full
capture_put ==
    /\ pc["Captura"] = "put"
    /\ CanPut(audio_queue, audio_queue_maxsize)
    /\ audio_queue' = Append(audio_queue, held["Captura"])
    /\ Emit("Captura")
    /\ UNCHANGED << main_log, input_lang, output_lang, stop_event, stt_queue,
                    translated_queue, output_queue, captured, got,
                    failed, translator_calls, main_pc, join_idx >>
    /\ UNCHANGED voice_vars

-----------------------------------------------------------------------------
(* ETAPA 2 - stt_process *)

\* WhisperModel("small", ...): an exception here is not caught, the process dies
stt_init(faults) ==
    /\ pc["STT"] = "init"
    /\ \/ Goto("STT", "loop")
       \/ faults /\ Goto("STT", "crashed")
    /\ UNCHANGED << main_log, input_lang, output_lang, stop_event, audio_queue, stt_queue,
                    translated_queue, output_queue, held, captured, got,
                    emitted, failed, translator_calls, main_pc, join_idx >>
    /\ UNCHANGED voice_vars

\* stt_get with a get that has no timeout: it returns only with an item
stt_get_no_timeout ==
    /\ pc["STT"] = "loop"
    /\ ~Empty(audio_queue)
    /\ audio_queue' = Tail(audio_queue)
    /\ Take("STT", Head(audio_queue))
    /\ Goto("STT", "transform")
    /\ UNCHANGED << main_log, input_lang, output_lang, stop_event, stt_queue,
                    translated_queue, output_queue, captured,
                    emitted, failed, translator_calls, main_pc, join_idx >>
    /\ UNCHANGED voice_vars

\* while not stop_event.is_set() or not audio_queue.empty(): audio_queue.get(timeout=1).
\* The process is the only consumer of the queue and the event is never
\* cleared, so the test and the get act as one step: leave the loop (event
\* set, queue empty), take the head, or time out (queue.Empty) and test again
stt_get ==
    /\ pc["STT"] = "loop"
    /\ IF Empty(audio_queue)
         THEN /\ stop_event
              /\ Goto("STT", "done")
              /\ UNCHANGED << audio_queue, held, got >>
         ELSE /\ audio_queue' = Tail(audio_queue)
              /\ Take("STT", Head(audio_queue))
              /\ Goto("STT", "transform")
    /\ UNCHANGED << main_log, input_lang, output_lang, stop_event, stt_queue,
                    translated_queue, output_queue, captured,
                    emitted, failed, translator_calls, main_pc, join_idx >>
    /\ UNCHANGED voice_vars

\* stt_transcribe without the try/except: the exception ends the process
stt_transcribe_uncaught(faults) ==
    /\ pc["STT"] = "transform"
    /\ \/ /\ held' = [held EXCEPT !["STT"] = Transcribe(@, input_lang)]
          /\ Goto("STT", "put")
          /\ UNCHANGED failed
       \/ /\ faults
          /\ failed' = [failed EXCEPT !["STT"] =
                           @ \cup {[id |-> held["STT"].id, why |-> "exception"]}]
          /\ Goto("STT", "crashed")
          /\ UNCHANGED held
       \/ faults /\ Drop("STT", "empty")
    /\ UNCHANGED << main_log, input_lang, output_lang, stop_event, audio_queue, stt_queue,
                    translated_queue, output_queue, captured, got,
                    emitted, translator_calls, main_pc, join_idx >>
    /\ UNCHANGED voice_vars

\* model.transcribe(...): a text, an exception, or an empty text
stt_transcribe(faults) ==
    /\ pc["STT"] = "transform"
    /\ \/ /\ held' = [held EXCEPT !["STT"] = Transcribe(@, input_lang)]
          /\ Goto("STT", "put")
          /\ UNCHANGED failed
       \/ faults /\ Drop("STT", "exception")
       \/ faults /\ Drop("STT", "empty")
    /\ UNCHANGED << main_log, input_lang, output_lang, stop_event, audio_queue, stt_queue,
                    translated_queue, output_queue, captured, got,
                    emitted, translator_calls, main_pc, join_idx >>
    /\ UNCHANGED voice_vars

\* stt_queue.put(text)
stt_put ==
    /\ pc["STT"] = "put"
    /\ CanPut(stt_queue, stt_queue_maxsize)
    /\ stt_queue' = Append(stt_queue, held["STT"])
    /\ Emit("STT")
    /\ UNCHANGED << main_log, input_lang, output_lang, stop_event, audio_queue,
                    translated_queue, output_queue, captured, got,
                    failed, translator_calls, main_pc, join_idx >>
    /\ UNCHANGED voice_vars

-----------------------------------------------------------------------------
(* ETAPA 3 - translate_process *)

\* needs_translation = input_lang != output_lang, and the banner
translate_init ==
    /\ pc["Translate"] = "init"
    /\ Goto("Translate", "loop")
    /\ UNCHANGED << main_log, input_lang, output_lang, stop_event, audio_queue, stt_queue,
                    translated_queue, output_queue, held, captured, got,
                    emitted, failed, translator_calls, main_pc, join_idx >>
    /\ UNCHANGED voice_vars

\* while not stop_event.is_set() or not stt_queue.empty(): stt_queue.get(timeout=1).
\* The process is the only consumer of the queue and the event is never
\* cleared, so the test and the get act as one step: leave the loop (event
\* set, queue empty), take the head, or time out (queue.Empty) and test again
translate_get ==
    /\ pc["Translate"] = "loop"
    /\ IF Empty(stt_queue)
         THEN /\ stop_event
              /\ Goto("Translate", "done")
              /\ UNCHANGED << stt_queue, held, got >>
         ELSE /\ stt_queue' = Tail(stt_queue)
              /\ Take("Translate", Head(stt_queue))
              /\ Goto("Translate", "transform")
    /\ UNCHANGED << main_log, input_lang, output_lang, stop_event, audio_queue,
                    translated_queue, output_queue, captured,
                    emitted, failed, translator_calls, main_pc, join_idx >>
    /\ UNCHANGED voice_vars

\* translate_text without the needs_translation test
translate_text_always(faults) ==
    /\ pc["Translate"] = "transform"
    /\ translator_calls' = translator_calls + 1
    /\ \/ held' = [held EXCEPT !["Translate"] =
                      GoogleTranslate(@, input_lang, output_lang)]
       \/ faults /\ UNCHANGED held
    /\ Goto("Translate", "put")
    /\ UNCHANGED << main_log, input_lang, output_lang, stop_event, audio_queue, stt_queue,
                    translated_queue, output_queue, captured, got,
                    emitted, failed, main_pc, join_idx >>
    /\ UNCHANGED voice_vars

\* translate_text that drops the item when the translator raises, as the
\* other stages do
translate_text_drops(faults) ==
    /\ pc["Translate"] = "transform"
    /\ IF needs_translation
         THEN /\ translator_calls' = translator_calls + 1
              /\ \/ /\ held' = [held EXCEPT !["Translate"] =
                                   GoogleTranslate(@, input_lang, output_lang)]
                    /\ Goto("Translate", "put")
                    /\ UNCHANGED failed
                 \/ faults /\ Drop("Translate", "exception")
         ELSE /\ Goto("Translate", "put")
              /\ UNCHANGED << translator_calls, held, failed >>
    /\ UNCHANGED << main_log, input_lang, output_lang, stop_event, audio_queue, stt_queue,
                    translated_queue, output_queue, captured, got,
                    emitted, main_pc, join_idx >>
    /\ UNCHANGED voice_vars

\* if needs_translation: GoogleTranslator(...).translate(text), the original
\* text kept when it raises; else passthrough
translate_text(faults) ==
    /\ pc["Translate"] = "transform"
    /\ IF needs_translation
         THEN /\ translator_calls' = translator_calls + 1
              /\ \/ held' = [held EXCEPT !["Translate"] =
                                GoogleTranslate(@, input_lang, output_lang)]
                 \/ faults /\ UNCHANGED held
         ELSE UNCHANGED << translator_calls, held >>
    /\ Goto("Translate", "put")
    /\ UNCHANGED << main_log, input_lang, output_lang, stop_event, audio_queue, stt_queue,
                    translated_queue, output_queue, captured, got,
                    emitted, failed, main_pc, join_idx >>
    /\ UNCHANGED voice_vars

\* translate_put on a queue that is not first-in first-out
translate_put_lifo ==
    /\ pc["Translate"] = "put"
    /\ CanPut(translated_queue, translated_queue_maxsize)
    /\ translated_queue' = << held["Translate"] >> \o translated_queue
    /\ Emit("Translate")
    /\ UNCHANGED << main_log, input_lang, output_lang, stop_event, audio_queue, stt_queue,
                    output_queue, captured, got,
                    failed, translator_calls, main_pc, join_idx >>
    /\ UNCHANGED voice_vars

\* translated_queue.put(text)
translate_put ==
    /\ pc["Translate"] = "put"
    /\ CanPut(translated_queue, translated_queue_maxsize)
    /\ translated_queue' = Append(translated_queue, held["Translate"])
    /\ Emit("Translate")
    /\ UNCHANGED << main_log, input_lang, output_lang, stop_event, audio_queue, stt_queue,
                    output_queue, captured, got,
                    failed, translator_calls, main_pc, join_idx >>
    /\ UNCHANGED voice_vars

-----------------------------------------------------------------------------
(* ETAPA 4 - preproces_output_process *)

\* PiperVoice.load / download_voice: an exception here is not caught
preproces_init(faults) ==
    /\ pc["PreprocesOutput"] = "init"
    /\ \/ Goto("PreprocesOutput", "loop")
       \/ faults /\ Goto("PreprocesOutput", "crashed")
    /\ UNCHANGED << main_log, input_lang, output_lang, stop_event, audio_queue, stt_queue,
                    translated_queue, output_queue, held, captured, got,
                    emitted, failed, translator_calls, main_pc, join_idx >>
    /\ UNCHANGED voice_vars

\* while not stop_event.is_set() or not translated_queue.empty(): translated_queue.get(timeout=1).
\* The process is the only consumer of the queue and the event is never
\* cleared, so the test and the get act as one step: leave the loop (event
\* set, queue empty), take the head, or time out (queue.Empty) and test again
preproces_get ==
    /\ pc["PreprocesOutput"] = "loop"
    /\ IF Empty(translated_queue)
         THEN /\ stop_event
              /\ Goto("PreprocesOutput", "done")
              /\ UNCHANGED << translated_queue, held, got >>
         ELSE /\ translated_queue' = Tail(translated_queue)
              /\ Take("PreprocesOutput", Head(translated_queue))
              /\ Goto("PreprocesOutput", "transform")
    /\ UNCHANGED << main_log, input_lang, output_lang, stop_event, audio_queue, stt_queue,
                    output_queue, captured,
                    emitted, failed, translator_calls, main_pc, join_idx >>
    /\ UNCHANGED voice_vars

\* the TTS call (an exception drops the item), then _speed_up_audio (an
\* exception keeps the raw audio)
preproces_synthesize(faults) ==
    /\ pc["PreprocesOutput"] = "transform"
    /\ \/ /\ held' = [held EXCEPT !["PreprocesOutput"] = SpeedUp(Synthesize(@))]
          /\ Goto("PreprocesOutput", "put")
          /\ UNCHANGED failed
       \/ /\ faults
          /\ held' = [held EXCEPT !["PreprocesOutput"] = Synthesize(@)]
          /\ Goto("PreprocesOutput", "put")
          /\ UNCHANGED failed
       \/ faults /\ Drop("PreprocesOutput", "exception")
    /\ UNCHANGED << main_log, input_lang, output_lang, stop_event, audio_queue, stt_queue,
                    translated_queue, output_queue, captured, got,
                    emitted, translator_calls, main_pc, join_idx >>
    /\ UNCHANGED voice_vars

\* preproces_put on a queue without maxsize
preproces_put_unbounded ==
    /\ pc["PreprocesOutput"] = "put"
    /\ output_queue' = Append(output_queue, held["PreprocesOutput"])
    /\ Emit("PreprocesOutput")
    /\ UNCHANGED << main_log, input_lang, output_lang, stop_event, audio_queue, stt_queue,
                    translated_queue, captured, got,
                    failed, translator_calls, main_pc, join_idx >>
    /\ UNCHANGED voice_vars

\* output_queue.put(wav_bytes)
preproces_put ==
    /\ pc["PreprocesOutput"] = "put"
    /\ CanPut(output_queue, output_queue_maxsize)
    /\ output_queue' = Append(output_queue, held["PreprocesOutput"])
    /\ Emit("PreprocesOutput")
    /\ UNCHANGED << main_log, input_lang, output_lang, stop_event, audio_queue, stt_queue,
                    translated_queue, captured, got,
                    failed, translator_calls, main_pc, join_idx >>
    /\ UNCHANGED voice_vars

-----------------------------------------------------------------------------
(* ETAPA 5 - play_process *)

\* pygame.mixer.init(devicename=...): an exception here is not caught
play_init(faults) ==
    /\ pc["Play"] = "init"
    /\ \/ Goto("Play", "loop")
       \/ faults /\ Goto("Play", "crashed")
    /\ UNCHANGED << main_log, input_lang, output_lang, stop_event, audio_queue, stt_queue,
                    translated_queue, output_queue, held, captured, got,
                    emitted, failed, translator_calls, main_pc, join_idx >>
    /\ UNCHANGED voice_vars

\* while not stop_event.is_set() or not output_queue.empty(): output_queue.get(timeout=1).
\* The process is the only consumer of the queue and the event is never
\* cleared, so the test and the get act as one step: leave the loop (event
\* set, queue empty), take the head, or time out (queue.Empty) and test again
play_get ==
    /\ pc["Play"] = "loop"
    /\ IF Empty(output_queue)
         THEN /\ stop_event
              /\ Goto("Play", "done")
              /\ UNCHANGED << output_queue, held, got >>
         ELSE /\ output_queue' = Tail(output_queue)
              /\ Take("Play", Head(output_queue))
              /\ Goto("Play", "transform")
    /\ UNCHANGED << main_log, input_lang, output_lang, stop_event, audio_queue, stt_queue,
                    translated_queue, captured,
                    emitted, failed, translator_calls, main_pc, join_idx >>
    /\ UNCHANGED voice_vars

\* music.load, music.play and the busy loop; an exception is caught and logged
play_audio(faults) ==
    /\ pc["Play"] = "transform"
    /\ \/ /\ emitted' = [emitted EXCEPT !["Play"] = Append(@, held["Play"])]
          /\ held' = [held EXCEPT !["Play"] = NoItem]
          /\ Goto("Play", "loop")
          /\ UNCHANGED failed
       \/ /\ faults
          /\ Drop("Play", "exception")
          /\ UNCHANGED emitted
    /\ UNCHANGED << main_log, input_lang, output_lang, stop_event, audio_queue, stt_queue,
                    translated_queue, output_queue, captured, got,
                    translator_calls, main_pc, join_idx >>
    /\ UNCHANGED voice_vars

-----------------------------------------------------------------------------
(* main: the wait loop, then the join loop *)

\* KeyboardInterrupt in "while any(p.is_alive() ...): time.sleep(0.5)"
KeyboardInterrupt ==
    /\ main_pc = "running"
    /\ stop_event' = TRUE
    /\ main_pc' = "join"
    /\ main_log' = Append(main_log, "Interrupción recibida")
    /\ UNCHANGED << input_lang, output_lang, audio_queue, stt_queue,
                    translated_queue, output_queue, pc, held, captured, got,
                    emitted, failed, translator_calls, join_idx >>
    /\ UNCHANGED voice_vars

\* the wait loop ends by itself when no process is alive
main_wait_end ==
    /\ main_pc = "running"
    /\ \A s \in Stages : pc[s] \in Dead
    /\ main_pc' = "join"
    /\ UNCHANGED << main_log, input_lang, output_lang, stop_event, audio_queue, stt_queue,
                    translated_queue, output_queue, pc, held, captured, got,
                    emitted, failed, translator_calls, join_idx >>
    /\ UNCHANGED voice_vars

\* the next process of the join loop, or after the last print("[MAIN] ¡Hasta luego!")
main_advance ==
    /\ join_idx' = join_idx + 1
    /\ IF join_idx = Len(StageOrder)
         THEN main_pc' = "end" /\ main_log' = Append(main_log, "Hasta luego")
         ELSE main_pc' = "join" /\ UNCHANGED main_log

\* p.join(timeout=10) returns with the process ended
main_join ==
    /\ main_pc = "join"
    /\ pc[StageOrder[join_idx]] \in Dead
    /\ main_advance
    /\ UNCHANGED << input_lang, output_lang, stop_event, audio_queue, stt_queue,
                    translated_queue, output_queue, pc, held, captured, got,
                    emitted, failed, translator_calls >>
    /\ UNCHANGED voice_vars

\* p.join(timeout=10) times out, p.is_alive(): p.terminate()
main_terminate ==
    /\ main_pc = "join"
    /\ pc[StageOrder[join_idx]] \notin Dead
    /\ Goto(StageOrder[join_idx], "killed")
    /\ held' = [held EXCEPT ![StageOrder[join_idx]] = NoItem]
    /\ main_advance
    /\ UNCHANGED << input_lang, output_lang, stop_event, audio_queue, stt_queue,
                    translated_queue, output_queue, captured, got,
                    emitted, failed, translator_calls >>
    /\ UNCHANGED voice_vars

-----------------------------------------------------------------------------
(* voice-llm.py: the shared state and the two threads *)

\* what transcribe can return for an utterance
Transcripts == {"", "hola", "Salir"}

ExitPhrases == {"salir", "adiós", "exit", "quit", "bye"}

\* text.strip().lower()
StripLower(t) == IF t = "Salir" THEN "salir" ELSE t

SystemTurn == [role |-> "system", content |-> "Eres un asistente de voz"]

\* A playback is a call of play_tts that reached line 164.  A response is
\* played after its turn was appended to the history and the farewell is
\* played once, last: the call and the length of the history tell the
\* playbacks of a run apart.
NoPlayback == << "none", 0 >>

Playback == IF is_playing THEN << o_ret, Len(messages) >> ELSE NoPlayback

VoiceInit ==
    /\ lock = "free"
    /\ is_playing = FALSE
    /\ interrupted = FALSE
    /\ interrupt_audio = 0
    /\ stop = FALSE
    /\ o_pc = "while_286"
    /\ o_ret = "none"
    /\ raising = FALSE
    /\ wav_bytes = 0
    /\ text = ""
    /\ messages = << SystemTurn >>
    /\ full_response = 0
    /\ line = "none"
    /\ music_busy = FALSE
    /\ l_pc = "start"
    /\ playing = FALSE
    /\ l_wav_bytes = 0
    /\ heard = 0
    /\ transcribed = << >>
    /\ l_playback = NoPlayback

(* conversation_loop *)

\* while not state.stop: wav_bytes = None
orch_while_286 ==
    /\ o_pc = "while_286"
    /\ IF stop
         THEN o_pc' = "end" /\ UNCHANGED wav_bytes
         ELSE o_pc' = "lock_291" /\ wav_bytes' = 0
    /\ UNCHANGED << lock, is_playing, interrupted, interrupt_audio, stop, o_ret,
                    raising, text, messages, full_response, line, music_busy,
                    l_pc, playing, l_wav_bytes, heard, transcribed >>
    /\ UNCHANGED << l_playback, pipe_vars >>

\* with state.lock:
orch_lock_291 ==
    /\ o_pc = "lock_291"
    /\ lock = "free"
    /\ lock' = "main"
    /\ o_pc' = "if_292"
    /\ UNCHANGED << is_playing, interrupted, interrupt_audio, stop, o_ret,
                    raising, wav_bytes, text, messages, full_response, line,
                    music_busy, l_pc, playing, l_wav_bytes, heard, transcribed >>
    /\ UNCHANGED << l_playback, pipe_vars >>

\* orch_if_292 that does not look at the stored utterance
orch_if_292_ignores_pending ==
    /\ o_pc = "if_292"
    /\ lock' = "free"
    /\ o_pc' = "listen_298"
    /\ UNCHANGED << is_playing, interrupted, interrupt_audio, stop, o_ret,
                    raising, wav_bytes, text, messages, full_response, line,
                    music_busy, l_pc, playing, l_wav_bytes, heard, transcribed >>
    /\ UNCHANGED << l_playback, pipe_vars >>

\* if state.interrupt_audio: wav_bytes = state.interrupt_audio
orch_if_292 ==
    /\ o_pc = "if_292"
    /\ IF interrupt_audio # 0
         THEN /\ wav_bytes' = interrupt_audio
              /\ o_pc' = "set_294"
              /\ UNCHANGED lock
         ELSE /\ lock' = "free"
              /\ o_pc' = "listen_298"
              /\ UNCHANGED wav_bytes
    /\ UNCHANGED << is_playing, interrupted, interrupt_audio, stop, o_ret,
                    raising, text, messages, full_response, line, music_busy,
                    l_pc, playing, l_wav_bytes, heard, transcribed >>
    /\ UNCHANGED << l_playback, pipe_vars >>

\* orch_set_294 that leaves the stored utterance in place
orch_set_294_keeps_audio ==
    /\ o_pc = "set_294"
    /\ o_pc' = "set_295"
    /\ UNCHANGED << lock, is_playing, interrupted, interrupt_audio, stop, o_ret,
                    raising, wav_bytes, text, messages, full_response, line,
                    music_busy, l_pc, playing, l_wav_bytes, heard, transcribed >>
    /\ UNCHANGED << l_playback, pipe_vars >>

\* state.interrupt_audio = None
orch_set_294 ==
    /\ o_pc = "set_294"
    /\ interrupt_audio' = 0
    /\ o_pc' = "set_295"
    /\ UNCHANGED << lock, is_playing, interrupted, stop, o_ret,
                    raising, wav_bytes, text, messages, full_response, line,
                    music_busy, l_pc, playing, l_wav_bytes, heard, transcribed >>
    /\ UNCHANGED << l_playback, pipe_vars >>

\* orch_set_295 that takes the utterance and leaves the flag raised
orch_set_295_keeps_flag ==
    /\ o_pc = "set_295"
    /\ lock' = "free"
    /\ o_pc' = "transcribe_305"
    /\ UNCHANGED << is_playing, interrupted, interrupt_audio, stop, o_ret,
                    raising, wav_bytes, text, messages, full_response, line,
                    music_busy, l_pc, playing, l_wav_bytes, heard, transcribed >>
    /\ UNCHANGED << l_playback, pipe_vars >>

\* state.interrupted = False, and the lock is released
orch_set_295 ==
    /\ o_pc = "set_295"
    /\ interrupted' = FALSE
    /\ lock' = "free"
    /\ o_pc' = "transcribe_305"
    /\ UNCHANGED << is_playing, interrupt_audio, stop, o_ret,
                    raising, wav_bytes, text, messages, full_response, line,
                    music_busy, l_pc, playing, l_wav_bytes, heard, transcribed >>
    /\ UNCHANGED << l_playback, pipe_vars >>

\* if not wav_bytes: wav_bytes = listen_once(...); if not wav_bytes: continue.
\* limit bounds the utterances the microphone delivers.
orch_listen(limit) ==
    /\ o_pc = "listen_298"
    /\ \/ /\ heard < limit
          /\ heard' = heard + 1
          /\ wav_bytes' = heard + 1
          /\ o_pc' = "transcribe_305"
       \/ /\ o_pc' = "while_286"
          /\ UNCHANGED << heard, wav_bytes >>
    /\ UNCHANGED << lock, is_playing, interrupted, interrupt_audio, stop, o_ret,
                    raising, text, messages, full_response, line, music_busy,
                    l_pc, playing, l_wav_bytes, transcribed >>
    /\ UNCHANGED << l_playback, pipe_vars >>

orch_listen_298 == orch_listen(MaxUtterances)

\* orch_transcribe_305 without the test "if not text: continue"
orch_transcribe_305_no_empty_test ==
    /\ o_pc = "transcribe_305"
    /\ transcribed' = Append(transcribed, wav_bytes)
    /\ \E t \in Transcripts :
          /\ text' = t
          /\ IF StripLower(t) \in ExitPhrases
               THEN /\ o_pc' = "tts_154"
                    /\ o_ret' = "farewell"
                    /\ UNCHANGED << messages, full_response >>
               ELSE /\ messages' = Append(messages, [role |-> "user", content |-> t])
                    /\ full_response' = 0
                    /\ o_pc' = "post_115"
                    /\ UNCHANGED o_ret
    /\ UNCHANGED << lock, is_playing, interrupted, interrupt_audio, stop,
                    raising, wav_bytes, line, music_busy,
                    l_pc, playing, l_wav_bytes, heard >>
    /\ UNCHANGED << l_playback, pipe_vars >>

\* text = transcribe(...); empty: continue; exit phrase: play_tts("¡Hasta luego!");
\* otherwise messages.append(user turn) and chat_ollama(messages, state)
orch_transcribe_305 ==
    /\ o_pc = "transcribe_305"
    /\ transcribed' = Append(transcribed, wav_bytes)
    /\ \E t \in Transcripts :
          /\ text' = t
          /\ IF t = ""
               THEN /\ o_pc' = "while_286"
                    /\ UNCHANGED << o_ret, messages, full_response >>
               ELSE IF StripLower(t) \in ExitPhrases
               THEN /\ o_pc' = "tts_154"
                    /\ o_ret' = "farewell"
                    /\ UNCHANGED << messages, full_response >>
               ELSE /\ messages' = Append(messages, [role |-> "user", content |-> t])
                    /\ full_response' = 0
                    /\ o_pc' = "post_115"
                    /\ UNCHANGED o_ret
    /\ UNCHANGED << lock, is_playing, interrupted, interrupt_audio, stop,
                    raising, wav_bytes, line, music_busy,
                    l_pc, playing, l_wav_bytes, heard >>
    /\ UNCHANGED << l_playback, pipe_vars >>

(* chat_ollama *)

\* requests.post(...), resp.raise_for_status(): RequestException returns ""
chat_post_115 ==
    /\ o_pc = "post_115"
    /\ \/ o_pc' = "iter_122"
       \/ o_pc' = "if_326"
    /\ UNCHANGED << lock, is_playing, interrupted, interrupt_audio, stop, o_ret,
                    raising, wav_bytes, text, messages, full_response, line,
                    music_busy, l_pc, playing, l_wav_bytes, heard, transcribed >>
    /\ UNCHANGED << l_playback, pipe_vars >>

\* for line in resp.iter_lines(): the next line, the end of the stream, or a
\* RequestException, which returns "" whatever was received
chat_iter_122 ==
    /\ o_pc = "iter_122"
    /\ \/ /\ line' \in {"empty", "done"} \cup
                       (IF full_response < MaxTokens THEN {"token"} ELSE {})
          /\ o_pc' = "if_123"
          /\ UNCHANGED full_response
       \/ /\ o_pc' = "if_326"
          /\ UNCHANGED << line, full_response >>
       \/ /\ full_response' = 0
          /\ o_pc' = "if_326"
          /\ UNCHANGED line
    /\ UNCHANGED << lock, is_playing, interrupted, interrupt_audio, stop, o_ret,
                    raising, wav_bytes, text, messages,
                    music_busy, l_pc, playing, l_wav_bytes, heard, transcribed >>
    /\ UNCHANGED << l_playback, pipe_vars >>

\* if state.interrupted or state.stop: break; otherwise the line is consumed
chat_if_123 ==
    /\ o_pc = "if_123"
    /\ IF interrupted \/ stop
         THEN o_pc' = "if_326" /\ UNCHANGED full_response
         ELSE /\ full_response' = full_response + (IF line = "token" THEN 1 ELSE 0)
              /\ o_pc' = IF line = "done" THEN "if_326" ELSE "iter_122"
    /\ UNCHANGED << lock, is_playing, interrupted, interrupt_audio, stop, o_ret,
                    raising, wav_bytes, text, messages, line,
                    music_busy, l_pc, playing, l_wav_bytes, heard, transcribed >>
    /\ UNCHANGED << l_playback, pipe_vars >>

\* orch_if_326 that takes the user turn back out of the history when there is
\* no response
orch_if_326_pops_turn ==
    /\ o_pc = "if_326"
    /\ IF full_response = 0
         THEN /\ o_pc' = "while_286"
              /\ messages' = SubSeq(messages, 1, Len(messages) - 1)
         ELSE /\ messages' = Append(messages, [role |-> "assistant",
                                               content |-> full_response])
              /\ o_pc' = "if_334"
    /\ UNCHANGED << lock, is_playing, interrupted, interrupt_audio, stop, o_ret,
                    raising, wav_bytes, text, full_response, line,
                    music_busy, l_pc, playing, l_wav_bytes, heard, transcribed >>
    /\ UNCHANGED << l_playback, pipe_vars >>

\* if not response: continue; messages.append(assistant turn)
orch_if_326 ==
    /\ o_pc = "if_326"
    /\ IF full_response = 0
         THEN o_pc' = "while_286" /\ UNCHANGED messages
         ELSE /\ messages' = Append(messages, [role |-> "assistant",
                                               content |-> full_response])
              /\ o_pc' = "if_334"
    /\ UNCHANGED << lock, is_playing, interrupted, interrupt_audio, stop, o_ret,
                    raising, wav_bytes, text, full_response, line,
                    music_busy, l_pc, playing, l_wav_bytes, heard, transcribed >>
    /\ UNCHANGED << l_playback, pipe_vars >>

\* orch_if_334 with the test inverted: the response is spoken only when the
\* flag is raised
orch_if_334_inverted ==
    /\ o_pc = "if_334"
    /\ IF interrupted
         THEN o_pc' = "tts_154" /\ o_ret' = "response"
         ELSE o_pc' = "while_286" /\ UNCHANGED o_ret
    /\ UNCHANGED << lock, is_playing, interrupted, interrupt_audio, stop,
                    raising, wav_bytes, text, messages, full_response, line,
                    music_busy, l_pc, playing, l_wav_bytes, heard, transcribed >>
    /\ UNCHANGED << l_playback, pipe_vars >>

\* if not state.interrupted: play_tts(response, ...)
orch_if_334 ==
    /\ o_pc = "if_334"
    /\ IF ~interrupted
         THEN o_pc' = "tts_154" /\ o_ret' = "response"
         ELSE o_pc' = "while_286" /\ UNCHANGED o_ret
    /\ UNCHANGED << lock, is_playing, interrupted, interrupt_audio, stop,
                    raising, wav_bytes, text, messages, full_response, line,
                    music_busy, l_pc, playing, l_wav_bytes, heard, transcribed >>
    /\ UNCHANGED << l_playback, pipe_vars >>

\* orch_set_317 that breaks out of the loop without setting stop
orch_set_317_no_stop ==
    /\ o_pc = "set_317"
    /\ o_pc' = "end"
    /\ UNCHANGED << lock, is_playing, interrupted, interrupt_audio, stop, o_ret,
                    raising, wav_bytes, text, messages, full_response, line,
                    music_busy, l_pc, playing, l_wav_bytes, heard, transcribed >>
    /\ UNCHANGED << l_playback, pipe_vars >>

\* state.stop = True; break
orch_set_317 ==
    /\ o_pc = "set_317"
    /\ stop' = TRUE
    /\ o_pc' = "end"
    /\ UNCHANGED << lock, is_playing, interrupted, interrupt_audio, o_ret,
                    raising, wav_bytes, text, messages, full_response, line,
                    music_busy, l_pc, playing, l_wav_bytes, heard, transcribed >>
    /\ UNCHANGED << l_playback, pipe_vars >>

(* play_tts *)

\* where play_tts returns to
PlayReturn == IF o_ret = "farewell" THEN "set_317" ELSE "while_286"

\* gtts.gTTS(...).write_to_fp(buf): an exception returns without playing
play_tts_154 ==
    /\ o_pc = "tts_154"
    /\ \/ o_pc' = "lock_163"
       \/ o_pc' = PlayReturn
    /\ UNCHANGED << lock, is_playing, interrupted, interrupt_audio, stop, o_ret,
                    raising, wav_bytes, text, messages, full_response, line,
                    music_busy, l_pc, playing, l_wav_bytes, heard, transcribed >>
    /\ UNCHANGED << l_playback, pipe_vars >>

\* with state.lock:
play_lock_163 ==
    /\ o_pc = "lock_163"
    /\ lock = "free"
    /\ lock' = "main"
    /\ o_pc' = "set_164"
    /\ UNCHANGED << is_playing, interrupted, interrupt_audio, stop, o_ret,
                    raising, wav_bytes, text, messages, full_response, line,
                    music_busy, l_pc, playing, l_wav_bytes, heard, transcribed >>
    /\ UNCHANGED << l_playback, pipe_vars >>

\* state.is_playing = True, and the lock is released
play_set_164 ==
    /\ o_pc = "set_164"
    /\ is_playing' = TRUE
    /\ lock' = "free"
    /\ o_pc' = "load_167"
    /\ UNCHANGED << interrupted, interrupt_audio, stop, o_ret,
                    raising, wav_bytes, text, messages, full_response, line,
                    music_busy, l_pc, playing, l_wav_bytes, heard, transcribed >>
    /\ UNCHANGED << l_playback, pipe_vars >>

\* play_load_167 whose exception leaves play_tts without the finally block
play_load_167_no_finally ==
    /\ o_pc = "load_167"
    /\ \/ music_busy' = TRUE /\ o_pc' = "busy_172"
       \/ o_pc' = PlayReturn /\ UNCHANGED music_busy
    /\ UNCHANGED << lock, is_playing, interrupted, interrupt_audio, stop, o_ret,
                    raising, wav_bytes, text, messages, full_response, line,
                    l_pc, playing, l_wav_bytes, heard, transcribed >>
    /\ UNCHANGED << l_playback, pipe_vars >>

\* pygame.mixer.init, music.load, music.play: an exception goes to finally
play_load_167 ==
    /\ o_pc = "load_167"
    /\ \/ music_busy' = TRUE /\ o_pc' = "busy_172"
       \/ o_pc' = "finally_181" /\ UNCHANGED music_busy
    /\ UNCHANGED << lock, is_playing, interrupted, interrupt_audio, stop, o_ret,
                    raising, wav_bytes, text, messages, full_response, line,
                    l_pc, playing, l_wav_bytes, heard, transcribed >>
    /\ UNCHANGED << l_playback, pipe_vars >>

\* while pygame.mixer.music.get_busy():
play_busy_172 ==
    /\ o_pc = "busy_172"
    /\ o_pc' = IF music_busy THEN "if_173" ELSE "finally_181"
    /\ UNCHANGED << lock, is_playing, interrupted, interrupt_audio, stop, o_ret,
                    raising, wav_bytes, text, messages, full_response, line,
                    music_busy, l_pc, playing, l_wav_bytes, heard, transcribed >>
    /\ UNCHANGED << l_playback, pipe_vars >>

\* play_if_173 without the test of the flag
play_if_173_no_check ==
    /\ o_pc = "if_173"
    /\ o_pc' = "tick_177"
    /\ UNCHANGED << lock, is_playing, interrupted, interrupt_audio, stop, o_ret,
                    raising, wav_bytes, text, messages, full_response, line,
                    music_busy, l_pc, playing, l_wav_bytes, heard, transcribed >>
    /\ UNCHANGED << l_playback, pipe_vars >>

\* if state.interrupted: pygame.mixer.music.stop(); break
play_if_173 ==
    /\ o_pc = "if_173"
    /\ IF interrupted
         THEN music_busy' = FALSE /\ o_pc' = "finally_181"
         ELSE o_pc' = "tick_177" /\ UNCHANGED music_busy
    /\ UNCHANGED << lock, is_playing, interrupted, interrupt_audio, stop, o_ret,
                    raising, wav_bytes, text, messages, full_response, line,
                    l_pc, playing, l_wav_bytes, heard, transcribed >>
    /\ UNCHANGED << l_playback, pipe_vars >>

\* pygame.time.Clock().tick(20)
play_tick_177 ==
    /\ o_pc = "tick_177"
    /\ o_pc' = "busy_172"
    /\ UNCHANGED << lock, is_playing, interrupted, interrupt_audio, stop, o_ret,
                    raising, wav_bytes, text, messages, full_response, line,
                    music_busy, l_pc, playing, l_wav_bytes, heard, transcribed >>
    /\ UNCHANGED << l_playback, pipe_vars >>

\* the mixer reaches the end of the audio
music_ends ==
    /\ music_busy
    /\ music_busy' = FALSE
    /\ UNCHANGED << lock, is_playing, interrupted, interrupt_audio, stop, o_pc,
                    o_ret, raising, wav_bytes, text, messages, full_response,
                    line, l_pc, playing, l_wav_bytes, heard, transcribed >>
    /\ UNCHANGED << l_playback, pipe_vars >>

\* finally: with state.lock:
play_finally_181 ==
    /\ o_pc = "finally_181"
    /\ lock = "free"
    /\ lock' = "main"
    /\ o_pc' = "set_182"
    /\ UNCHANGED << is_playing, interrupted, interrupt_audio, stop, o_ret,
                    raising, wav_bytes, text, messages, full_response, line,
                    music_busy, l_pc, playing, l_wav_bytes, heard, transcribed >>
    /\ UNCHANGED << l_playback, pipe_vars >>

\* play_set_182 that leaves is_playing as it is
play_set_182_no_reset ==
    /\ o_pc = "set_182"
    /\ lock' = "free"
    /\ o_pc' = IF raising THEN "except_378" ELSE PlayReturn
    /\ UNCHANGED << is_playing, interrupted, interrupt_audio, stop, o_ret,
                    raising, wav_bytes, text, messages, full_response, line,
                    music_busy, l_pc, playing, l_wav_bytes, heard, transcribed >>
    /\ UNCHANGED << l_playback, pipe_vars >>

\* state.is_playing = False, the lock is released, and play_tts returns (or
\* the KeyboardInterrupt goes on to main's handler)
play_set_182 ==
    /\ o_pc = "set_182"
    /\ is_playing' = FALSE
    /\ lock' = "free"
    /\ o_pc' = IF raising THEN "except_378" ELSE PlayReturn
    /\ UNCHANGED << interrupted, interrupt_audio, stop, o_ret,
                    raising, wav_bytes, text, messages, full_response, line,
                    music_busy, l_pc, playing, l_wav_bytes, heard, transcribed >>
    /\ UNCHANGED << l_playback, pipe_vars >>

(* main: Ctrl+C while the main thread waits in listen_once, in the         *)
(* response stream or in the playback loop                                 *)

voice_KeyboardInterrupt ==
    /\ o_pc \in {"listen_298", "iter_122", "tick_177"}
    /\ IF o_pc = "tick_177"
         THEN raising' = TRUE /\ o_pc' = "finally_181"
         ELSE o_pc' = "except_378" /\ UNCHANGED raising
    /\ UNCHANGED << lock, is_playing, interrupted, interrupt_audio, stop, o_ret,
                    wav_bytes, text, messages, full_response, line,
                    music_busy, l_pc, playing, l_wav_bytes, heard, transcribed >>
    /\ UNCHANGED << l_playback, pipe_vars >>

\* except KeyboardInterrupt: state.stop = True
main_except_378 ==
    /\ o_pc = "except_378"
    /\ stop' = TRUE
    /\ o_pc' = "end"
    /\ UNCHANGED << lock, is_playing, interrupted, interrupt_audio, o_ret,
                    raising, wav_bytes, text, messages, full_response, line,
                    music_busy, l_pc, playing, l_wav_bytes, heard, transcribed >>
    /\ UNCHANGED << l_playback, pipe_vars >>

(* interrupt_listener *)

\* sr.Microphone(...), adjust_for_ambient_noise: an exception ends the thread
listener_start ==
    /\ l_pc = "start"
    /\ l_pc' \in {"while_207", "crashed"}
    /\ UNCHANGED << lock, is_playing, interrupted, interrupt_audio, stop, o_pc,
                    o_ret, raising, wav_bytes, text, messages, full_response,
                    line, music_busy, playing, l_wav_bytes, heard, transcribed >>
    /\ UNCHANGED << l_playback, pipe_vars >>

\* while not state.stop:
listener_while_207 ==
    /\ l_pc = "while_207"
    /\ l_pc' = IF stop THEN "end" ELSE "lock_209"
    /\ UNCHANGED << lock, is_playing, interrupted, interrupt_audio, stop, o_pc,
                    o_ret, raising, wav_bytes, text, messages, full_response,
                    line, music_busy, playing, l_wav_bytes, heard, transcribed >>
    /\ UNCHANGED << l_playback, pipe_vars >>

\* with state.lock:
listener_lock_209 ==
    /\ l_pc = "lock_209"
    /\ lock = "free"
    /\ lock' = "listener"
    /\ l_pc' = "read_210"
    /\ UNCHANGED << is_playing, interrupted, interrupt_audio, stop, o_pc,
                    o_ret, raising, wav_bytes, text, messages, full_response,
                    line, music_busy, playing, l_wav_bytes, heard, transcribed >>
    /\ UNCHANGED << l_playback, pipe_vars >>

\* playing = state.is_playing, and the lock is released
listener_read_210 ==
    /\ l_pc = "read_210"
    /\ playing' = is_playing
    /\ l_playback' = Playback
    /\ lock' = "free"
    /\ l_pc' = "if_212"
    /\ UNCHANGED << is_playing, interrupted, interrupt_audio, stop, o_pc,
                    o_ret, raising, wav_bytes, text, messages, full_response,
                    line, music_busy, l_wav_bytes, heard, transcribed >>
    /\ UNCHANGED pipe_vars

\* if not playing: time.sleep(0.1); continue
listener_if_212 ==
    /\ l_pc = "if_212"
    /\ l_pc' = IF playing THEN "listen_217" ELSE "while_207"
    /\ UNCHANGED << lock, is_playing, interrupted, interrupt_audio, stop, o_pc,
                    o_ret, raising, wav_bytes, text, messages, full_response,
                    line, music_busy, playing, l_wav_bytes, heard, transcribed >>
    /\ UNCHANGED << l_playback, pipe_vars >>

\* recognizer.listen(source, timeout=1, phrase_time_limit=15): an utterance,
\* or WaitTimeoutError / another exception, after which the loop continues.
\* limit bounds the utterances the microphone delivers.
listener_listen(limit) ==
    /\ l_pc = "listen_217"
    /\ \/ /\ heard < limit
          /\ heard' = heard + 1
          /\ l_wav_bytes' = heard + 1
          /\ l_pc' = "lock_221"
       \/ /\ l_pc' = "while_207"
          /\ UNCHANGED << heard, l_wav_bytes >>
    /\ UNCHANGED << lock, is_playing, interrupted, interrupt_audio, stop, o_pc,
                    o_ret, raising, wav_bytes, text, messages, full_response,
                    line, music_busy, playing, transcribed >>
    /\ UNCHANGED << l_playback, pipe_vars >>

listener_listen_217 == listener_listen(MaxUtterances)

\* with state.lock:
listener_lock_221 ==
    /\ l_pc = "lock_221"
    /\ lock = "free"
    /\ lock' = "listener"
    /\ l_pc' = "if_222"
    /\ UNCHANGED << is_playing, interrupted, interrupt_audio, stop, o_pc,
                    o_ret, raising, wav_bytes, text, messages, full_response,
                    line, music_busy, playing, l_wav_bytes, heard, transcribed >>
    /\ UNCHANGED << l_playback, pipe_vars >>

\* listener_if_222 without the second look at is_playing
listener_if_222_no_recheck ==
    /\ l_pc = "if_222"
    /\ l_pc' = "set_223"
    /\ UNCHANGED << lock, is_playing, interrupted, interrupt_audio, stop, o_pc,
                    o_ret, raising, wav_bytes, text, messages, full_response,
                    line, music_busy, playing, l_wav_bytes, heard, transcribed >>
    /\ UNCHANGED << l_playback, pipe_vars >>

\* if state.is_playing: ... ; otherwise the lock is released and the loop continues
listener_if_222 ==
    /\ l_pc = "if_222"
    /\ IF is_playing
         THEN l_pc' = "set_223" /\ UNCHANGED lock
         ELSE l_pc' = "while_207" /\ lock' = "free"
    /\ UNCHANGED << is_playing, interrupted, interrupt_audio, stop, o_pc,
                    o_ret, raising, wav_bytes, text, messages, full_response,
                    line, music_busy, playing, l_wav_bytes, heard, transcribed >>
    /\ UNCHANGED << l_playback, pipe_vars >>

\* state.interrupted = True
listener_set_223 ==
    /\ l_pc = "set_223"
    /\ interrupted' = TRUE
    /\ l_pc' = "set_224"
    /\ UNCHANGED << lock, is_playing, interrupt_audio, stop, o_pc,
                    o_ret, raising, wav_bytes, text, messages, full_response,
                    line, music_busy, playing, l_wav_bytes, heard, transcribed >>
    /\ UNCHANGED << l_playback, pipe_vars >>

\* state.interrupt_audio = wav_bytes, and the lock is released
listener_set_224 ==
    /\ l_pc = "set_224"
    /\ interrupt_audio' = l_wav_bytes
    /\ lock' = "free"
    /\ l_pc' = "while_207"
    /\ UNCHANGED << is_playing, interrupted, stop, o_pc,
                    o_ret, raising, wav_bytes, text, messages, full_response,
                    line, music_busy, playing, l_wav_bytes, heard, transcribed >>
    /\ UNCHANGED << l_playback, pipe_vars >>

-----------------------------------------------------------------------------
(* Spec: the pipeline from start to the end of main, with per-item         *)
(* failures of every collaborator, a fatal microphone failure and Ctrl+C;  *)
(* main waits at its joins (no join timeout expires).                      *)

Init == PipeInit /\ VoiceInit

Next ==
    \/ capture_init(TRUE) \/ capture_loop \/ capture_listen(MaxItems) \/ capture_put
    \/ stt_init(FALSE) \/ stt_get \/ stt_transcribe(TRUE) \/ stt_put
    \/ translate_init \/ translate_get \/ translate_text(TRUE) \/ translate_put
    \/ preproces_init(FALSE) \/ preproces_get \/ preproces_synthesize(TRUE)
    \/ preproces_put
    \/ play_init(FALSE) \/ play_get \/ play_audio(TRUE)
    \/ KeyboardInterrupt \/ main_wait_end \/ main_join

Spec == Init /\ [][Next]_vars

-----------------------------------------------------------------------------
(* ShutdownSpec: Spec with join timeouts that expire: main terminates the  *)
(* processes still alive at their join.                                    *)

ShutdownNext ==
    \/ capture_init(TRUE) \/ capture_loop \/ capture_listen(MaxShutdownItems)
    \/ capture_put
    \/ stt_init(FALSE) \/ stt_get \/ stt_transcribe(TRUE) \/ stt_put
    \/ translate_init \/ translate_get \/ translate_text(TRUE) \/ translate_put
    \/ preproces_init(FALSE) \/ preproces_get \/ preproces_synthesize(TRUE)
    \/ preproces_put
    \/ play_init(FALSE) \/ play_get \/ play_audio(TRUE)
    \/ KeyboardInterrupt \/ main_wait_end \/ main_join \/ main_terminate

ShutdownSpec == Init /\ [][ShutdownNext]_vars

-----------------------------------------------------------------------------
(* CapSpec: the running pipeline with no failure and no shutdown, and      *)
(* enough utterances to fill output_queue.                                 *)

CapNext ==
    \/ capture_init(FALSE) \/ capture_loop \/ capture_listen(MaxCapItems)
    \/ capture_put
    \/ stt_init(FALSE) \/ stt_get \/ stt_transcribe(FALSE) \/ stt_put
    \/ translate_init \/ translate_get \/ translate_text(FALSE) \/ translate_put
    \/ preproces_init(FALSE) \/ preproces_get \/ preproces_synthesize(FALSE)
    \/ preproces_put
    \/ play_init(FALSE) \/ play_get \/ play_audio(FALSE)

CapSpec == Init /\ [][CapNext]_vars

-----------------------------------------------------------------------------
(* FairSpec: shutdown by cooperation.  Every process keeps running (weak   *)
(* fairness of its steps: the operating system schedules each process, and *)
(* every blocking call of a step returns), main waits at its joins, and no *)
(* join timeout expires.                                                   *)

CaptureStep ==
    capture_init(TRUE) \/ capture_loop \/ capture_listen(MaxFairItems) \/ capture_put

SttStep == stt_init(FALSE) \/ stt_get \/ stt_transcribe(TRUE) \/ stt_put

TranslateStep ==
    translate_init \/ translate_get \/ translate_text(TRUE) \/ translate_put

PreprocesStep ==
    preproces_init(FALSE) \/ preproces_get \/ preproces_synthesize(TRUE)
    \/ preproces_put

PlayStep == play_init(FALSE) \/ play_get \/ play_audio(TRUE)

FairNext ==
    \/ CaptureStep \/ SttStep \/ TranslateStep \/ PreprocesStep \/ PlayStep
    \/ KeyboardInterrupt \/ main_wait_end \/ main_join

FairSpec ==
    /\ Init /\ [][FairNext]_vars
    /\ WF_vars(CaptureStep) /\ WF_vars(SttStep) /\ WF_vars(TranslateStep)
    /\ WF_vars(PreprocesStep) /\ WF_vars(PlayStep)
    /\ WF_vars(main_wait_end) /\ WF_vars(main_join)

-----------------------------------------------------------------------------
(* BlockSpec: the pipeline with enough utterances to fill output_queue, a  *)
(* speaker that may fail to open (Play dies of the uncaught exception) and *)
(* Ctrl+C; no per-item failure.                                            *)

BlockNext ==
    \/ capture_init(FALSE) \/ capture_loop \/ capture_listen(MaxBlockItems)
    \/ capture_put
    \/ stt_init(FALSE) \/ stt_get \/ stt_transcribe(FALSE) \/ stt_put
    \/ translate_init \/ translate_get \/ translate_text(FALSE) \/ translate_put
    \/ preproces_init(FALSE) \/ preproces_get \/ preproces_synthesize(FALSE)
    \/ preproces_put
    \/ play_init(TRUE) \/ play_get \/ play_audio(FALSE)
    \/ KeyboardInterrupt

\* the queues do not depend on the languages: one configuration, es -> es
BlockSpecInit == Init /\ output_lang = input_lang

BlockSpec == BlockSpecInit /\ [][BlockNext]_vars

-----------------------------------------------------------------------------
(* FaultSpec: the running pipeline with per-item failures of every         *)
(* collaborator and a fatal microphone failure, and no Ctrl+C: main stays  *)
(* in its wait loop.                                                       *)

FaultNext ==
    \/ capture_init(TRUE) \/ capture_loop \/ capture_listen(MaxFaultItems)
    \/ capture_put
    \/ stt_init(FALSE) \/ stt_get \/ stt_transcribe(TRUE) \/ stt_put
    \/ translate_init \/ translate_get \/ translate_text(TRUE) \/ translate_put
    \/ preproces_init(FALSE) \/ preproces_get \/ preproces_synthesize(TRUE)
    \/ preproces_put
    \/ play_init(FALSE) \/ play_get \/ play_audio(TRUE)

FaultSpec == Init /\ [][FaultNext]_vars

-----------------------------------------------------------------------------
(* CrashSpec: the pipeline with devices and models that may fail when a    *)
(* process starts: the microphone (handled in capture_process), the        *)
(* Whisper model, the Piper voice and the speaker (not handled: the        *)
(* process dies of the exception); per-item failures and Ctrl+C as in Spec.*)

CrashNext ==
    \/ capture_init(TRUE) \/ capture_loop \/ capture_listen(MaxCrashItems)
    \/ capture_put
    \/ stt_init(TRUE) \/ stt_get \/ stt_transcribe(TRUE) \/ stt_put
    \/ translate_init \/ translate_get \/ translate_text(TRUE) \/ translate_put
    \/ preproces_init(TRUE) \/ preproces_get \/ preproces_synthesize(TRUE)
    \/ preproces_put
    \/ play_init(TRUE) \/ play_get \/ play_audio(TRUE)
    \/ KeyboardInterrupt \/ main_wait_end \/ main_join

CrashSpec == Init /\ [][CrashNext]_vars

-----------------------------------------------------------------------------
(* VoiceSpec: the voice assistant: the main thread, the listener thread,   *)
(* the mixer and Ctrl+C.                                                   *)

VoiceNext ==
    \/ orch_while_286 \/ orch_lock_291 \/ orch_if_292 \/ orch_set_294
    \/ orch_set_295 \/ orch_listen_298 \/ orch_transcribe_305
    \/ chat_post_115 \/ chat_iter_122 \/ chat_if_123 \/ orch_if_326
    \/ orch_if_334 \/ orch_set_317
    \/ play_tts_154 \/ play_lock_163 \/ play_set_164 \/ play_load_167
    \/ play_busy_172 \/ play_if_173 \/ play_tick_177 \/ music_ends
    \/ play_finally_181 \/ play_set_182
    \/ voice_KeyboardInterrupt \/ main_except_378
    \/ listener_start \/ listener_while_207 \/ listener_lock_209
    \/ listener_read_210 \/ listener_if_212 \/ listener_listen_217
    \/ listener_lock_221 \/ listener_if_222 \/ listener_set_223
    \/ listener_set_224

\* the assistant has one language: the pipeline's configuration is left at es -> es
VoiceSpecInit == Init /\ output_lang = input_lang

VoiceSpec == VoiceSpecInit /\ [][VoiceNext]_vars

-----------------------------------------------------------------------------
(* StuckSpec: the pipeline (es -> es, no per-item failure) some time after *)
(* the speaker failed to open: Play died of the exception at its start,    *)
(* the other four stages went on, and each queue is one item short of      *)
(* full.  The microphone delivers the utterances that are missing for      *)
(* every queue to be full and every producer to hold one more.             *)

\* the items i..j as they are on audio_queue, on stt_queue and
\* translated_queue (no translation), and on output_queue
Wavs(i, j) == [k \in 1..(j - i + 1) |-> Utterance(i + k - 1)]

Texts(i, j) ==
    [k \in 1..(j - i + 1) |-> Transcribe(Utterance(i + k - 1), "es")]

Audios(i, j) ==
    [k \in 1..(j - i + 1) |->
        SpeedUp(Synthesize(Transcribe(Utterance(i + k - 1), "es")))]

\* Play died at its start; n4 utterances went through PreprocesOutput and
\* wait on output_queue, the next on translated_queue up to the n3-th, on
\* stt_queue up to the n2-th and on audio_queue up to the n1-th; the four
\* stages are at the head of their loops with nothing in hand
Backlog(n1, n2, n3, n4) ==
    /\ input_lang = "es"
    /\ output_lang = "es"
    /\ stop_event = FALSE
    /\ audio_queue = Wavs(n2 + 1, n1)
    /\ stt_queue = Texts(n3 + 1, n2)
    /\ translated_queue = Texts(n4 + 1, n3)
    /\ output_queue = Audios(1, n4)
    /\ pc = [s \in Stages |-> IF s = "Play" THEN "crashed" ELSE "loop"]
    /\ held = [s \in Stages |-> NoItem]
    /\ captured = n1
    /\ got = [s \in Stages |->
                CASE s = "Captura" -> << >>
                  [] s = "STT" -> Wavs(1, n2)
                  [] s = "Translate" -> Texts(1, n3)
                  [] s = "PreprocesOutput" -> Texts(1, n4)
                  [] s = "Play" -> << >>]
    /\ emitted = [s \in Stages |->
                CASE s = "Captura" -> Wavs(1, n1)
                  [] s = "STT" -> Texts(1, n2)
                  [] s = "Translate" -> Texts(1, n3)
                  [] s = "PreprocesOutput" -> Audios(1, n4)
                  [] s = "Play" -> << >>]
    /\ failed = [s \in Stages |-> {}]
    /\ translator_calls = 0
    /\ main_pc = "running"
    /\ join_idx = 1
    /\ main_log = << "Pipeline activo" >>

StuckSpecInit ==
    /\ Backlog((output_queue_maxsize - 1) + (translated_queue_maxsize - 1)
                  + (stt_queue_maxsize - 1) + (audio_queue_maxsize - 1),
               (output_queue_maxsize - 1) + (translated_queue_maxsize - 1)
                  + (stt_queue_maxsize - 1),
               (output_queue_maxsize - 1) + (translated_queue_maxsize - 1),
               output_queue_maxsize - 1)
    /\ VoiceInit

StuckNext ==
    \/ capture_loop \/ capture_listen(MaxStuckItems) \/ capture_put
    \/ stt_get \/ stt_transcribe(FALSE) \/ stt_put
    \/ translate_get \/ translate_text(FALSE) \/ translate_put
    \/ preproces_get \/ preproces_synthesize(FALSE) \/ preproces_put
    \/ KeyboardInterrupt

StuckSpec == StuckSpecInit /\ [][StuckNext]_vars

-----------------------------------------------------------------------------
(* BargeSpec: the voice assistant as in VoiceSpec, with a microphone that  *)
(* delivers enough utterances for a turn and two captures of the listener. *)

BargeNext ==
    \/ orch_while_286 \/ orch_lock_291 \/ orch_if_292 \/ orch_set_294
    \/ orch_set_295 \/ orch_listen(MaxBargeUtterances) \/ orch_transcribe_305
    \/ chat_post_115 \/ chat_iter_122 \/ chat_if_123 \/ orch_if_326
    \/ orch_if_334 \/ orch_set_317
    \/ play_tts_154 \/ play_lock_163 \/ play_set_164 \/ play_load_167
    \/ play_busy_172 \/ play_if_173 \/ play_tick_177 \/ music_ends
    \/ play_finally_181 \/ play_set_182
    \/ voice_KeyboardInterrupt \/ main_except_378
    \/ listener_start \/ listener_while_207 \/ listener_lock_209
    \/ listener_read_210 \/ listener_if_212
    \/ listener_listen(MaxBargeUtterances)
    \/ listener_lock_221 \/ listener_if_222 \/ listener_set_223
    \/ listener_set_224

BargeSpec == VoiceSpecInit /\ [][BargeNext]_vars

-----------------------------------------------------------------------------
(* EitherSpec: a run of one of the two programs, realtime.py or            *)
(* voice-llm.py: each takes its steps only while the other has not been    *)
(* started.                                                                *)

PipeIdle ==
    /\ \A s \in Stages : pc[s] = "init"
    /\ main_pc = "running"
    /\ ~stop_event

VoiceIdle ==
    /\ o_pc = "while_286"
    /\ l_pc = "start"
    /\ heard = 0

EitherNext ==
    \/ VoiceIdle /\ capture_init(TRUE)
    \/ VoiceIdle /\ capture_loop
    \/ VoiceIdle /\ capture_listen(MaxItems)
    \/ VoiceIdle /\ capture_put
    \/ VoiceIdle /\ stt_init(FALSE)
    \/ VoiceIdle /\ stt_get
    \/ VoiceIdle /\ stt_transcribe(TRUE)
    \/ VoiceIdle /\ stt_put
    \/ VoiceIdle /\ translate_init
    \/ VoiceIdle /\ translate_get
    \/ VoiceIdle /\ translate_text(TRUE)
    \/ VoiceIdle /\ translate_put
    \/ VoiceIdle /\ preproces_init(FALSE)
    \/ VoiceIdle /\ preproces_get
    \/ VoiceIdle /\ preproces_synthesize(TRUE)
    \/ VoiceIdle /\ preproces_put
    \/ VoiceIdle /\ play_init(FALSE)
    \/ VoiceIdle /\ play_get
    \/ VoiceIdle /\ play_audio(TRUE)
    \/ VoiceIdle /\ KeyboardInterrupt
    \/ VoiceIdle /\ main_wait_end
    \/ VoiceIdle /\ main_join
    \/ PipeIdle /\ orch_while_286
    \/ PipeIdle /\ orch_lock_291
    \/ PipeIdle /\ orch_if_292
    \/ PipeIdle /\ orch_set_294
    \/ PipeIdle /\ orch_set_295
    \/ PipeIdle /\ orch_listen_298
    \/ PipeIdle /\ orch_transcribe_305
    \/ PipeIdle /\ chat_post_115
    \/ PipeIdle /\ chat_iter_122
    \/ PipeIdle /\ chat_if_123
    \/ PipeIdle /\ orch_if_326
    \/ PipeIdle /\ orch_if_334
    \/ PipeIdle /\ orch_set_317
    \/ PipeIdle /\ play_tts_154
    \/ PipeIdle /\ play_lock_163
    \/ PipeIdle /\ play_set_164
    \/ PipeIdle /\ play_load_167
    \/ PipeIdle /\ play_busy_172
    \/ PipeIdle /\ play_if_173
    \/ PipeIdle /\ play_tick_177
    \/ PipeIdle /\ music_ends
    \/ PipeIdle /\ play_finally_181
    \/ PipeIdle /\ play_set_182
    \/ PipeIdle /\ voice_KeyboardInterrupt
    \/ PipeIdle /\ main_except_378
    \/ PipeIdle /\ listener_start
    \/ PipeIdle /\ listener_while_207
    \/ PipeIdle /\ listener_lock_209
    \/ PipeIdle /\ listener_read_210
    \/ PipeIdle /\ listener_if_212
    \/ PipeIdle /\ listener_listen_217
    \/ PipeIdle /\ listener_lock_221
    \/ PipeIdle /\ listener_if_222
    \/ PipeIdle /\ listener_set_223
    \/ PipeIdle /\ listener_set_224

\* neither the assistant nor the transcription depends on the output
\* language: one configuration, es -> es
EitherSpecInit == Init /\ output_lang = input_lang

EitherSpec == EitherSpecInit /\ [][EitherNext]_vars

-----------------------------------------------------------------------------
(* Helpers of the properties *)

Ids(seq) == [i \in 1..Len(seq) |-> seq[i].id]

RECURSIVE IsSubseq(_, _)
\* a is an order-preserving subsequence of b
IsSubseq(a, b) ==
    IF a = << >> THEN TRUE
    ELSE IF b = << >> THEN FALSE
    ELSE IF Head(a) = Head(b) THEN IsSubseq(Tail(a), Tail(b))
    ELSE IsSubseq(a, Tail(b))

NoDuplicates(seq) == \A i, j \in 1..Len(seq) : seq[i] = seq[j] => i = j

Range(seq) == {seq[i] : i \in 1..Len(seq)}

FailedIds(s) == {f.id : f \in failed[s]}

\* the item of got[s] that carries the id of an emitted item
Source(s, item) == CHOOSE x \in Range(got[s]) : x.id = item.id

\* the results the transform of stage s can give for input x
Transformed(s, x) ==
    CASE s = "STT" -> {Transcribe(x, input_lang)}
      [] s = "Translate" ->
            IF needs_translation
              THEN {GoogleTranslate(x, input_lang, output_lang), x}
              ELSE {x}
      [] s = "PreprocesOutput" -> {SpeedUp(Synthesize(x)), Synthesize(x)}
      [] OTHER -> {x}

Consumers == {"STT", "Translate", "PreprocesOutput", "Play"}

InputQueue(s) ==
    CASE s = "STT" -> audio_queue
      [] s = "Translate" -> stt_queue
      [] s = "PreprocesOutput" -> translated_queue
      [] s = "Play" -> output_queue

Upstream(s) ==
    CASE s = "STT" -> "Captura"
      [] s = "Translate" -> "STT"
      [] s = "PreprocesOutput" -> "Translate"
      [] s = "Play" -> "PreprocesOutput"

-----------------------------------------------------------------------------
-----------------------------------------------------------------------------
(* C2: a queue never holds more than its maxsize; a process at a put on a  *)
(* full queue stays there with its item until the queue has room, and a    *)
(* put that returns has appended the item to the queue.                    *)
QueuesBounded ==
    /\ Len(audio_queue) <= audio_queue_maxsize
    /\ Len(stt_queue) <= stt_queue_maxsize
    /\ Len(translated_queue) <= translated_queue_maxsize
    /\ Len(output_queue) <= output_queue_maxsize

PutBlocksOrAppends(s, q, qNext, maxsize) ==
    /\ (pc[s] = "put" /\ Len(q) = maxsize) =>
          (pc'[s] = "put" /\ held'[s] = held[s])
    /\ (pc[s] = "put" /\ pc'[s] # "put") => qNext = Append(q, held[s])

-----------------------------------------------------------------------------
(* C3: from a state where the event is set, the four queues are empty and  *)
(* no process holds an item, every process reaches the end of its function *)
(* by itself.                                                              *)
QuietStop ==
    /\ stop_event
    /\ \A s \in Consumers : Empty(InputQueue(s))
    /\ \A s \in Stages : held[s] = NoItem

AllDone == \A s \in Stages : pc[s] = "done"

C3_StopTerminates == QuietStop ~> AllDone

\* Ctrl+C came with the pipeline running and idle, and every process has ended
C3_Witness ==
    /\ QuietStop
    /\ AllDone
    /\ main_pc = "end"
    /\ Len(emitted["Play"]) = 1

-----------------------------------------------------------------------------
(* C4 as claimed: with no transform failure and no forced termination, no  *)
(* item is stranded: a process that has left its loop leaves nothing in    *)
(* its input queue, and the process before it holds nothing to put there.  *)
C4_Drained ==
    ((\A s \in Stages : pc[s] # "killed" /\ failed[s] = {}) =>
        \A s \in Consumers :
            pc[s] = "done" =>
                (Empty(InputQueue(s)) /\ held[Upstream(s)] = NoItem))

-----------------------------------------------------------------------------
(* C8: with input_lang = output_lang the translator is never called and    *)
(* Translate emits exactly the items it took; the translator is called     *)
(* once per item taken otherwise.                                          *)
TranslateHandled ==
    Len(got["Translate"]) - (IF pc["Translate"] = "transform" THEN 1 ELSE 0)

C8_Passthrough ==
    /\ ~needs_translation =>
          /\ translator_calls = 0
          /\ \A i \in 1..Len(emitted["Translate"]) :
                emitted["Translate"][i] = got["Translate"][i]
    /\ translator_calls > 0 => needs_translation
    /\ (needs_translation /\ pc["Translate"] # "killed") =>
          translator_calls = TranslateHandled

\* equal languages, and Translate has forwarded an item
C8_Witness ==
    /\ input_lang = output_lang
    /\ Len(emitted["Translate"]) >= 1

-----------------------------------------------------------------------------
(* C5: the listener's step after it has taken the lock with a captured     *)
(* utterance leaves interrupted and interrupt_audio as they are when       *)
(* is_playing is false; and interrupted becomes true only by a step of the *)
(* listener that holds the lock and has seen is_playing true, which is     *)
(* still true.                                                             *)
C5_InterruptRace ==
    [][/\ (l_pc = "if_222" /\ ~is_playing /\ l_pc' # l_pc) =>
              /\ interrupted' = interrupted
              /\ interrupt_audio' = interrupt_audio
              /\ l_pc' = "while_207"
       /\ (~interrupted /\ interrupted') =>
              /\ lock = "listener"
              /\ l_pc = "set_223"
              /\ is_playing]_vars

\* the listener captured an utterance, found playback ended and stored nothing
C5_Witness ==
    /\ l_pc = "while_207"
    /\ l_wav_bytes # 0
    /\ ~is_playing
    /\ ~interrupted
    /\ interrupt_audio = 0
    /\ wav_bytes # l_wav_bytes
    /\ l_wav_bytes \notin Range(transcribed)

-----------------------------------------------------------------------------
(* C6 as claimed: while the conversation goes on (the last playback was a  *)
(* response, no Ctrl+C), an utterance the listener has captured and is     *)
(* done with is in the hands of the main thread: it is the stored          *)
(* interrupt_audio, the wav_bytes of the running turn, or was transcribed. *)
C6_NotLost ==
    (/\ l_pc = "while_207" /\ l_wav_bytes # 0
     /\ o_ret = "response" /\ ~raising /\ o_pc \notin {"except_378", "end"}) =>
        \/ interrupt_audio = l_wav_bytes
        \/ wav_bytes = l_wav_bytes
        \/ l_wav_bytes \in Range(transcribed)

-----------------------------------------------------------------------------
(* C7: no pass of the playback loop goes on to its tick with interrupted   *)
(* set: the test that follows the raising of the flag stops the music and  *)
(* leaves the loop for the finally block, where is_playing is reset.       *)
C7_BargeInLatency ==
    [][/\ (o_pc = "if_173" /\ interrupted /\ o_pc' # o_pc) =>
              (o_pc' = "finally_181" /\ ~music_busy')
       /\ (o_pc # "tick_177" /\ o_pc' = "tick_177") => ~interrupted
       /\ (o_pc = "finally_181" /\ o_pc' # o_pc) => o_pc' = "set_182"
       /\ (o_pc = "set_182" /\ o_pc' # o_pc) => ~is_playing']_vars

\* the playback loop saw the flag: the music is stopped, is_playing about to be reset
C7_Witness ==
    /\ o_pc = "finally_181"
    /\ interrupted
    /\ interrupt_audio # 0
    /\ ~music_busy
    /\ is_playing
    /\ ~raising

-----------------------------------------------------------------------------
(* C9: interrupt_audio is set only while interrupted is true, and outside  *)
(* the lock-protected blocks the two are set or clear together.            *)
C9_AudioImpliesInterrupted ==
    /\ interrupt_audio # 0 => interrupted
    /\ lock = "free" => (interrupted <=> interrupt_audio # 0)

\* the main thread has taken the stored utterance and cleared both fields
C9_Witness ==
    /\ o_pc = "transcribe_305"
    /\ wav_bytes # 0
    /\ wav_bytes = l_wav_bytes
    /\ interrupt_audio = 0
    /\ ~interrupted

-----------------------------------------------------------------------------
(* C10 as claimed: a field of the shared state changes only in a step of a *)
(* thread that holds the lock, and a step that branches on interrupted,    *)
(* is_playing or stop is taken by a thread that holds the lock.            *)
MainReads == {"while_286", "if_123", "if_173", "if_334"}

ListenerReads == {"while_207", "read_210", "if_222"}

C10_LockDiscipline ==
    [][/\ (\/ is_playing' # is_playing
           \/ interrupted' # interrupted
           \/ interrupt_audio' # interrupt_audio
           \/ stop' # stop) => lock # "free"
       /\ (o_pc \in MainReads /\ o_pc' # o_pc) => lock = "main"
       /\ (l_pc \in ListenerReads /\ l_pc' # l_pc) => lock = "listener"]_vars

-----------------------------------------------------------------------------
(* C11 as claimed: after the event is set no process is blocked for good   *)
(* on a queue operation.  A process at a put on a full queue whose only    *)
(* consumer has ended is blocked for good: only that consumer's get could  *)
(* make room, so the put never returns and the event is never tested       *)
(* again.  The claim says no such state is reachable.                      *)
Producers == {"Captura", "STT", "Translate", "PreprocesOutput"}

OutputQueue(s) ==
    CASE s = "Captura" -> audio_queue
      [] s = "STT" -> stt_queue
      [] s = "Translate" -> translated_queue
      [] s = "PreprocesOutput" -> output_queue

Maxsize(s) ==
    CASE s = "Captura" -> audio_queue_maxsize
      [] s = "STT" -> stt_queue_maxsize
      [] s = "Translate" -> translated_queue_maxsize
      [] s = "PreprocesOutput" -> output_queue_maxsize

Downstream(s) ==
    CASE s = "Captura" -> "STT"
      [] s = "STT" -> "Translate"
      [] s = "Translate" -> "PreprocesOutput"
      [] s = "PreprocesOutput" -> "Play"

BlockedForGood(s) ==
    /\ pc[s] = "put"
    /\ ~CanPut(OutputQueue(s), Maxsize(s))
    /\ pc[Downstream(s)] \in Dead

C11_NoBlockedPut ==
    \A s \in Producers : stop_event => ~BlockedForGood(s)

-----------------------------------------------------------------------------
(* C12: a step in which the transform of STT, PreprocesOutput or Play      *)
(* fails on its item is a step of that process from its transform back to  *)
(* the head of its loop: the item is let go, no queue and no other process *)
(* changes, nothing is emitted and the event is left as it was; and an     *)
(* item whose transform failed is never among the items the stage emitted. *)
Transformers == {"STT", "PreprocesOutput", "Play"}

Queues == << audio_queue, stt_queue, translated_queue, output_queue >>

FailureIsLocal(s) ==
    failed'[s] # failed[s] =>
        /\ pc[s] = "transform"
        /\ pc'[s] = "loop"
        /\ \A r \in Stages \ {s} : pc'[r] = pc[r] /\ failed'[r] = failed[r]
        /\ failed'[s] = failed[s] \cup {f \in failed'[s] : f.id = held[s].id}
        /\ held'[s] = NoItem
        /\ emitted' = emitted
        /\ Queues' = Queues
        /\ stop_event' = stop_event

FailedNotEmitted ==
    \A s \in Transformers :
        FailedIds(s) \cap Range(Ids(emitted[s])) = {}

C12_FailureDropsItem ==
    /\ []FailedNotEmitted
    /\ [][\A s \in Transformers : FailureIsLocal(s)]_vars

\* the transcription of utterance 1 raised; STT went on and forwarded utterance 2
C12_Witness ==
    /\ [id |-> 1, why |-> "exception"] \in failed["STT"]
    /\ Ids(emitted["STT"]) = << 2 >>
    /\ Ids(stt_queue) = << 2 >>
    /\ ~stop_event

-----------------------------------------------------------------------------
(* C13: Translate puts one item for every item it takes: what it has       *)
(* emitted is, item by item, what it has taken, each either translated or  *)
(* as it came; it drops nothing; the only item taken and not yet emitted   *)
(* is the one it holds on its way to the put; and the step in which the    *)
(* translator raises goes on to the put with the text as it came.          *)
TranslateInHand == IF pc["Translate"] \in {"transform", "put"} THEN 1 ELSE 0

OneOutputPerItem ==
    /\ failed["Translate"] = {}
    /\ Len(emitted["Translate"]) + TranslateInHand = Len(got["Translate"])
    /\ TranslateInHand = 1 =>
          held["Translate"].id = got["Translate"][Len(got["Translate"])].id
    /\ \A i \in 1..Len(emitted["Translate"]) :
          \/ emitted["Translate"][i] = got["Translate"][i]
          \/ /\ needs_translation
             /\ emitted["Translate"][i] =
                    GoogleTranslate(got["Translate"][i], input_lang, output_lang)

FallbackKeepsText ==
    (pc["Translate"] = "transform" /\ pc'["Translate"] # "transform") =>
        /\ pc'["Translate"] = "put"
        /\ held'["Translate"] \in
              {held["Translate"],
               GoogleTranslate(held["Translate"], input_lang, output_lang)}
        /\ translated_queue' = translated_queue

C13_TranslateFallback ==
    /\ []OneOutputPerItem
    /\ [][FallbackKeepsText]_vars

\* the languages differ, the translator raised on utterance 1 and worked on
\* utterance 2: both are on translated_queue, the first in the input language
C13_Witness ==
    /\ needs_translation
    /\ translator_calls = 2
    /\ Len(translated_queue) = 2
    /\ translated_queue[1] = got["Translate"][1]
    /\ translated_queue[1].lang = input_lang
    /\ translated_queue[2].lang = output_lang

-----------------------------------------------------------------------------
(* C14 as claimed: a process that ends on a fatal failure of its start-up  *)
(* (it leaves "init" for its end, not for its loop) leaves the event as it *)
(* was, and as long as no shutdown was requested of main no other process  *)
(* leaves its loop.                                                        *)
FatalExit(s) == pc[s] = "init" /\ pc'[s] \in {"done", "crashed"}

C14_FatalStopsOnlyStage ==
    /\ [][\A s \in Stages : FatalExit(s) => stop_event' = stop_event]_vars
    /\ [](main_pc = "running" =>
             \A s \in Stages : pc[s] = "done" => captured = 0 /\ s = "Captura")

(* C14 as amended: a fatal failure of the microphone makes Capture set the *)
(* event and end; a fatal failure at the start of any other process ends   *)
(* that process alone, the event and the other processes left as they      *)
(* were; the event is set only by that handler of Capture or by main on    *)
(* Ctrl+C, and no process leaves its loop before the event is set.         *)
FatalInCapture ==
    FatalExit("Captura") =>
        /\ stop_event'
        /\ pc'["Captura"] = "done"
        /\ \A r \in Stages \ {"Captura"} : pc'[r] = pc[r]

FatalElsewhere ==
    \A s \in Stages \ {"Captura"} :
        FatalExit(s) =>
            /\ pc'[s] = "crashed"
            /\ stop_event' = stop_event
            /\ \A r \in Stages \ {s} : pc'[r] = pc[r]
            /\ Queues' = Queues

StopSetOnlyBy ==
    (~stop_event /\ stop_event') =>
        \/ FatalExit("Captura")
        \/ main_pc = "running" /\ main_pc' = "join"

C14_FatalFailure ==
    /\ [][FatalInCapture /\ FatalElsewhere /\ StopSetOnlyBy]_vars
    /\ [](~stop_event => \A s \in Stages : pc[s] # "done")

\* the Whisper model failed to load and STT died with the event clear and
\* the others running; then the microphone failed, Capture set the event
\* and Play left its loop, with no Ctrl+C
C14_Witness ==
    /\ pc["STT"] = "crashed"
    /\ pc["Captura"] = "done"
    /\ captured = 0
    /\ stop_event
    /\ main_pc = "running"
    /\ pc["Play"] = "done"

-----------------------------------------------------------------------------
(* C16: whenever the main thread is about to call the language model, and  *)
(* all the while it is inside chat_ollama, interrupted is false; and the   *)
(* step that starts a generation is taken with interrupted false.          *)
Streaming == {"post_115", "iter_122", "if_123"}

C16_FlagClearAtGeneration ==
    /\ [](o_pc \in Streaming => ~interrupted)
    /\ [][(o_pc = "transcribe_305" /\ o_pc' = "post_115") =>
              (~interrupted /\ ~interrupted')]_vars

\* the last playback was interrupted, the loop took the stored utterance
\* and cleared the flag, and the generation for that utterance starts
C16_Witness ==
    /\ o_pc = "post_115"
    /\ wav_bytes # 0
    /\ wav_bytes = l_wav_bytes
    /\ Len(messages) >= 4
    /\ ~interrupted
    /\ interrupt_audio = 0

-----------------------------------------------------------------------------
(* C17: the step that transcribes a farewell phrase calls play_tts for the *)
(* farewell and appends nothing to the history; from then on the main      *)
(* thread is in that play_tts, at the setting of stop or at its end: the   *)
(* history stays as it is, nothing more is listened to or transcribed,     *)
(* chat_ollama is not entered; and the main thread ends with stop set.     *)
InPlayTts == {"tts_154", "lock_163", "set_164", "load_167", "busy_172",
              "if_173", "tick_177", "finally_181", "set_182"}

IsFarewell(t) == StripLower(t) \in ExitPhrases

FarewellStarts ==
    (o_pc = "transcribe_305" /\ o_pc' # o_pc) =>
        IF IsFarewell(text')
          THEN o_pc' = "tts_154" /\ o_ret' = "farewell" /\ messages' = messages
          ELSE o_ret' # "farewell"

FarewellIsLast ==
    o_ret = "farewell" =>
        /\ o_ret' = "farewell"
        /\ messages' = messages
        /\ transcribed' = transcribed
        /\ text' = text
        /\ (o_pc = "set_317" /\ o_pc' # o_pc) => (stop' /\ o_pc' = "end")

C17_Farewell ==
    /\ [][FarewellStarts /\ FarewellIsLast]_vars
    /\ [](o_ret = "farewell" =>
             /\ IsFarewell(text)
             /\ o_pc \in InPlayTts \cup {"set_317", "except_378", "end"})
    /\ [](o_pc = "end" => stop)

\* after one full turn the user said "Salir": the farewell was played, stop
\* is set, the loop is left and the history holds the first turn only
C17_Witness ==
    /\ o_pc = "end"
    /\ o_ret = "farewell"
    /\ ~raising
    /\ stop
    /\ text = "Salir"
    /\ Len(transcribed) = 2
    /\ Len(messages) = 3
    /\ messages[2] = [role |-> "user", content |-> "hola"]

-----------------------------------------------------------------------------
(* C18: in the pipeline, the step in which the transcript of an utterance  *)
(* is empty leaves stt_queue as it is and takes STT back to its loop, and  *)
(* such an utterance is never on stt_queue nor among the items Translate   *)
(* took; in the assistant, the step that transcribes an empty text goes    *)
(* back to the head of the loop with the history as it was, with no call   *)
(* of chat_ollama or play_tts, and no user turn is ever empty.             *)
EmptyIds == {f.id : f \in {g \in failed["STT"] : g.why = "empty"}}

EmptyNotForwarded ==
    /\ EmptyIds \cap Range(Ids(stt_queue)) = {}
    /\ EmptyIds \cap Range(Ids(emitted["STT"])) = {}
    /\ EmptyIds \cap Range(Ids(got["Translate"])) = {}
    /\ \A i \in 1..Len(messages) :
          messages[i].role = "user" => messages[i].content # ""

EmptyPutsNothing ==
    (failed'["STT"] # failed["STT"]) =>
        /\ stt_queue' = stt_queue
        /\ emitted' = emitted
        /\ pc'["STT"] = "loop"

EmptyTextLoopsAgain ==
    (o_pc = "transcribe_305" /\ o_pc' # o_pc /\ text' = "") =>
        /\ o_pc' = "while_286"
        /\ messages' = messages
        /\ o_ret' = o_ret
        /\ is_playing' = is_playing
        /\ stop' = stop

C18_EmptyNotForwarded ==
    /\ []EmptyNotForwarded
    /\ [][EmptyPutsNothing /\ EmptyTextLoopsAgain]_vars

\* the transcript of utterance 1 was empty: STT put nothing for it, and
\* utterance 2 went on to Translate
C18_Witness ==
    /\ failed["STT"] = {[id |-> 1, why |-> "empty"]}
    /\ Ids(emitted["STT"]) = << 2 >>
    /\ Ids(got["Translate"]) = << 2 >>
    /\ stt_queue = << >>

-----------------------------------------------------------------------------
(* C19 as claimed: when chat_ollama has returned no response (the request  *)
(* failed or the stream broke), the step that follows the call goes back   *)
(* to the head of the loop with stop and is_playing as they were, no       *)
(* play_tts called, and the history as it was before the turn: without the *)
(* user turn that the turn appended before the call.                       *)
HistoryBeforeTurn == SubSeq(messages, 1, Len(messages) - 1)

C19_LlmFailureAbortsTurn ==
    [][(o_pc = "if_326" /\ full_response = 0 /\ o_pc' # o_pc) =>
          /\ o_pc' = "while_286"
          /\ stop' = stop
          /\ is_playing' = is_playing
          /\ o_ret' = o_ret
          /\ messages' = HistoryBeforeTurn]_vars

-----------------------------------------------------------------------------
(* C20 as claimed: no utterance is passed to transcription twice, and      *)
(* every utterance the microphone has delivered has been passed to         *)
(* transcription or is still on its way there.  In the pipeline: taken by  *)
(* STT, or on audio_queue or in Capture's hand with STT still running.  In *)
(* the assistant: transcribed, or the wav_bytes of the turn in progress,   *)
(* or stored as interrupt_audio, or in the listener's hand before its      *)
(* locked section ends.                                                    *)
MainHolds(n) ==
    wav_bytes = n /\ o_pc \in {"set_294", "set_295", "transcribe_305"}

ListenerHolds(n) ==
    l_wav_bytes = n /\ l_pc \in {"lock_221", "if_222", "set_223", "set_224"}

TranscribedOnce ==
    /\ NoDuplicates(transcribed)
    /\ NoDuplicates(Ids(got["STT"]))

NoUtteranceLost ==
    /\ \A n \in 1..heard :
          \/ n \in Range(transcribed)
          \/ MainHolds(n)
          \/ interrupt_audio = n
          \/ ListenerHolds(n)
    /\ \A n \in 1..captured :
          \/ n \in Range(Ids(got["STT"]))
          \/ /\ pc["STT"] \notin Dead
             /\ \/ n \in Range(Ids(audio_queue))
                \/ held["Captura"].id = n

C20_ConsumedExactlyOnce == TranscribedOnce /\ NoUtteranceLost

-----------------------------------------------------------------------------
(* C21: the history is append-only: every step leaves it as it is or adds  *)
(* one turn at its end (a user turn before the call of the model, an       *)
(* assistant turn after a response), so that its length never decreases    *)
(* and no turn in it changes; and the system turn is always its first      *)
(* entry.                                                                  *)
IsPrefix(a, b) == Len(a) <= Len(b) /\ SubSeq(b, 1, Len(a)) = a

HistoryGrowsByAppend ==
    /\ IsPrefix(messages, messages')
    /\ Len(messages') <= Len(messages) + 1
    /\ (messages' # messages) =>
           \/ /\ o_pc = "transcribe_305"
              /\ messages'[Len(messages')] = [role |-> "user", content |-> text']
           \/ /\ o_pc = "if_326"
              /\ messages'[Len(messages')].role = "assistant"

C21_HistoryAppendOnly ==
    /\ [][HistoryGrowsByAppend]_vars
    /\ [](Len(messages) >= 1 /\ messages[1] = SystemTurn)

\* two turns: the first was answered, the second got no response; the
\* history holds the system turn, both user turns and the one answer
C21_Witness ==
    /\ o_pc = "while_286"
    /\ Len(messages) = 4
    /\ messages[1] = SystemTurn
    /\ messages[2].role = "user"
    /\ messages[3].role = "assistant"
    /\ messages[4].role = "user"
    /\ full_response = 0

-----------------------------------------------------------------------------
(* C22 as claimed: is_playing is true only in the Playing state, that is   *)
(* while the main thread is in the playback loop that follows              *)
(* pygame.mixer.music.play(): not while play_tts synthesizes or opens the  *)
(* device and loads the audio, and not once the loop is left.              *)
Synthesizing == {"tts_154", "lock_163", "set_164"}

Loading == {"load_167"}

PlayingLoop == {"busy_172", "if_173", "tick_177"}

AfterLoop == {"finally_181", "set_182"}

C22_BusyOnlyWhilePlaying == is_playing => o_pc \in PlayingLoop

-----------------------------------------------------------------------------
(* C23: is_playing is false in every state where the main thread is not    *)
(* inside play_tts, and every step that leaves play_tts (the synthesis     *)
(* failed, or the finally block ran after the audio ended, was stopped by  *)
(* the flag, or the mixer raised) leaves it with is_playing false.         *)
PlayTtsReturns == o_pc \in InPlayTts /\ o_pc' \notin InPlayTts

-----------------------------------------------------------------------------
(* C24: at the head of a turn the main thread, holding the lock, takes a   *)
(* pending interrupt utterance as the turn's wav_bytes and clears          *)
(* interrupt_audio and interrupted before it releases the lock, and goes   *)
(* on to the transcription without a listen; it calls listen_once only     *)
(* from the test that found no utterance pending, and none is pending      *)
(* while it listens.                                                       *)
TakingPending == {"set_294", "set_295"}

PendingIsTaken ==
    (o_pc = "if_292" /\ o_pc' # o_pc) =>
        IF interrupt_audio # 0
          THEN /\ wav_bytes' = interrupt_audio
               /\ o_pc' = "set_294"
               /\ lock' = "main"
          ELSE /\ o_pc' = "listen_298"
               /\ wav_bytes' = 0

ClearedUnderLock ==
    /\ (o_pc \in TakingPending /\ o_pc' # o_pc) =>
           /\ heard' = heard
           /\ wav_bytes' = wav_bytes
           /\ o_pc' \in TakingPending \cup {"transcribe_305"}
    /\ (o_pc \in TakingPending /\ o_pc' = "transcribe_305") =>
           /\ interrupt_audio' = 0
           /\ ~interrupted'
           /\ wav_bytes' # 0
    /\ (o_pc \in TakingPending \cup {"if_292"}) =>
           /\ interrupt_audio' \in {interrupt_audio, 0}
           /\ interrupted' \in {interrupted, FALSE}

ListenOnlyIfNonePending ==
    (o_pc # "listen_298" /\ o_pc' = "listen_298") =>
        (o_pc = "if_292" /\ interrupt_audio = 0)

C24_PendingBeforeListen ==
    /\ [][PendingIsTaken /\ ClearedUnderLock /\ ListenOnlyIfNonePending]_vars
    /\ [](o_pc \in TakingPending \cup {"if_292"} => lock = "main")
    /\ [](o_pc = "listen_298" => (interrupt_audio = 0 /\ wav_bytes = 0))

\* the second utterance was stored by the listener and has been taken by the
\* main thread at the head of the turn: nothing was listened to in between
C24_Witness ==
    /\ o_pc = "transcribe_305"
    /\ lock = "free"
    /\ transcribed = << 1 >>
    /\ heard = 2
    /\ l_wav_bytes = 2
    /\ wav_bytes = 2
    /\ interrupt_audio = 0
    /\ ~interrupted

-----------------------------------------------------------------------------
(* C25: after a generation that was not interrupted the main thread calls  *)
(* play_tts with the whole response, the one it appended to the history.   *)
(* When the listener has flagged that playback, play_tts returns to the    *)
(* head of the loop with the utterance stored; nothing changes the stored  *)
(* utterance until the main thread takes it as the wav_bytes of the next   *)
(* turn, and that utterance is the next one transcribed: no listen_once    *)
(* and no other turn in between.                                           *)
LoopHead == {"while_286", "lock_291", "if_292"}

ResponseIsSpoken ==
    (o_pc = "if_334" /\ o_pc' # o_pc) =>
        IF ~interrupted
          THEN o_pc' = "tts_154" /\ o_ret' = "response"
          ELSE o_pc' = "while_286"

SpokenIsFullResponse ==
    (o_pc \in InPlayTts /\ o_ret = "response") =>
        /\ full_response # 0
        /\ messages[Len(messages)].role = "assistant"
        /\ messages[Len(messages)].content = full_response

InterruptedPlaybackLeavesUtterance ==
    (o_pc \in LoopHead /\ interrupted) =>
        /\ interrupt_audio # 0
        /\ interrupt_audio \notin Range(transcribed)
        /\ o_ret = "response"
        /\ ~stop

StoredUtteranceIsNext ==
    /\ (o_pc \in LoopHead /\ interrupt_audio # 0) =>
           /\ interrupt_audio' = interrupt_audio
           /\ transcribed' = transcribed
           /\ messages' = messages
           /\ o_pc' \in LoopHead \cup {"set_294"}
    /\ (o_pc \in TakingPending) =>
           /\ transcribed' = transcribed
           /\ messages' = messages
    /\ (o_pc = "if_292" /\ o_pc' = "set_294") => wav_bytes' = interrupt_audio
    /\ (o_pc = "transcribe_305" /\ o_pc' # o_pc) =>
           transcribed' = Append(transcribed, wav_bytes)

C25_SpeakThenBargeIn ==
    /\ [][ResponseIsSpoken /\ StoredUtteranceIsNext]_vars
    /\ []SpokenIsFullResponse
    /\ []InterruptedPlaybackLeavesUtterance

\* the answer to utterance 1 was being spoken when the listener captured
\* utterance 2; the next turn transcribed utterance 2 and now asks the model
C25_Witness ==
    /\ o_pc = "post_115"
    /\ transcribed = << 1, 2 >>
    /\ l_wav_bytes = 2
    /\ Len(messages) = 4
    /\ messages[3].role = "assistant"
    /\ messages[4].role = "user"
    /\ o_ret = "response"

-----------------------------------------------------------------------------
(* C26 as claimed: when main has finished no stage is left running (each   *)
(* was joined, and terminated if still alive at its join), and main has    *)
(* printed a line for every stage it terminated.                           *)
MainLines == {"Pipeline activo", "Interrupción recibida", "Hasta luego"}

TellsForcedTermination(l) == l \notin MainLines

Killed == {s \in Stages : pc[s] = "killed"}

NoStageLeftRunning == main_pc = "end" => \A s \in Stages : pc[s] \in Dead

TerminationIsLogged ==
    Cardinality(Killed) <= Len(SelectSeq(main_log, TellsForcedTermination))

C26_ShutdownProtocol == NoStageLeftRunning /\ TerminationIsLogged

-----------------------------------------------------------------------------
(* C27 as claimed: the listener is in recognizer.listen only while         *)
(* is_playing is true: it enters the call after it has read is_playing     *)
(* true under the lock, and it is not in the call in any state where       *)
(* is_playing is false.                                                    *)
Armed == {"listen_217"}

ArmedAfterSeeingBusy == l_pc \in Armed => playing

DormantWhenIdle == ~is_playing => l_pc \notin Armed

C27_ListensOnlyWhileBusy == ArmedAfterSeeingBusy /\ DormantWhenIdle

-----------------------------------------------------------------------------
(* C28: interrupted becomes true only in a step taken with is_playing      *)
(* true; is_playing is true only while the main thread is inside play_tts; *)
(* so interrupted (and stop) are false in every state where the main       *)
(* thread is inside chat_ollama, and the stream is left only at its "done" *)
(* line or by a failure of the request, never by the break of line 124.    *)
FlagRaisedOnlyWhilePlaying == (~interrupted /\ interrupted') => is_playing

StreamNotCutShort ==
    (o_pc = "if_123" /\ o_pc' # o_pc) =>
        /\ full_response' = full_response + (IF line = "token" THEN 1 ELSE 0)
        /\ o_pc' = IF line = "done" THEN "if_326" ELSE "iter_122"

C28_NoBargeInWhileStreaming ==
    /\ [][FlagRaisedOnlyWhilePlaying /\ StreamNotCutShort]_vars
    /\ [](is_playing => o_pc \in InPlayTts)
    /\ [](o_pc \in Streaming => (~interrupted /\ ~stop /\ ~is_playing))

\* the listener saw a playback and is in its listen call while the main
\* thread, a turn later, has a token of the next response: no flag is raised
C28_Witness ==
    /\ o_pc = "iter_122"
    /\ full_response >= 1
    /\ l_pc = "listen_217"
    /\ playing
    /\ Len(transcribed) = 2
    /\ Len(messages) = 4
    /\ ~interrupted

-----------------------------------------------------------------------------
(* C29 as claimed: the step in which the listener raises interrupted is    *)
(* taken during the playback that was in progress when the listener read   *)
(* is_playing before that listen; and the listener never goes on to raise  *)
(* the flag during another playback than the one it saw.                   *)
FlagsThePlaybackItSaw ==
    (l_pc = "if_222" /\ l_pc' = "set_223") => Playback = l_playback

C29_SamePlayback == [][FlagsThePlaybackItSaw]_vars

-----------------------------------------------------------------------------
(* C30 as claimed: the listener stores an utterance only when none is      *)
(* stored: a stored utterance stays until the main thread has taken it and *)
(* cleared the field.                                                      *)
StoreOnlyIfNoneStored ==
    (l_pc = "set_224" /\ l_pc' # l_pc) => interrupt_audio = 0

StoredUntilTaken ==
    (interrupt_audio # 0 /\ interrupt_audio' # interrupt_audio) =>
        (o_pc = "set_294" /\ wav_bytes = interrupt_audio /\ interrupt_audio' = 0)

C30_NoOverwrite == [][StoreOnlyIfNoneStored /\ StoredUntilTaken]_vars

-----------------------------------------------------------------------------
(* C31 as claimed: while the event is not set the pipeline does not get    *)
(* stuck: with a stage dead (Play, of its start-up failure) there is no    *)
(* state in which every remaining stage is at a put on a full queue.  In   *)
(* such a state no stage can take a step: each put waits for the get of    *)
(* the next stage, and the last queue has no consumer.                     *)
PutBlocked(s) == pc[s] = "put" /\ ~CanPut(OutputQueue(s), Maxsize(s))

PipelineStuck ==
    /\ pc["Play"] \in Dead
    /\ \A s \in Producers : PutBlocked(s)

C31_NeverStuck == ~stop_event => ~PipelineStuck

=============================================================================
